---- MODULE Spec2Model ----
(***************************************************************************)
(* A model of the bit-packed columnar serializer of                        *)
(* Platform_Engineer/Rust/solution: the bit streams (bit_packer.rs), the   *)
(* variable-length integers, the base-N bundles (ultra_packer.rs) and the  *)
(* columnar Serializer / Deserializer (serializer.rs).                     *)
(*                                                                         *)
(* Machine words.  TLC's integers are 32 bits wide, so a 64-bit word (u64, *)
(* i64) is a tuple of four 16-bit limbs, least significant first.  Bytes   *)
(* are 0..255.  Option<T> is a record with an `ok` flag; a panic (assert,  *)
(* unreachable!, expect) is a `panic` flag, and the location "panic".      *)
(***************************************************************************)
EXTENDS Integers, Sequences, FiniteSets, TLC

VARIABLES
    integers, strings, booleans, property_types,        \* Serializer columns
    buffer,                                             \* the caller's Vec<u8>
    bit_offset,                                         \* BitPacker.bit_offset
    unpacker,                                           \* BitUnpacker
    d_integers, d_strings, d_booleans, d_property_types,\* Deserializer queues
    fields,                                             \* values written so far, in schema order
    oplog,                                              \* bit-level writes, in order
    nread,                                              \* bit-level reads done
    ultra,                                              \* an ultrapack bundle on its way
    pc,                                                 \* position of the driver
    call,                                               \* the last call made
    ret                                                 \* what it returned

vars == << integers, strings, booleans, property_types, buffer, bit_offset,
           unpacker, d_integers, d_strings, d_booleans, d_property_types,
           fields, oplog, nread, ultra, pc, call, ret >>

serVars == << integers, strings, booleans, property_types, fields >>
deVars == << d_integers, d_strings, d_booleans, d_property_types >>
bitVars == << oplog, nread >>

-----------------------------------------------------------------------------
(* u8 arithmetic *)

\* u8 << n, bits shifted out are lost
Shl8(b, n) == (b * 2^n) % 256

\* u8 >> n
Shr8(b, n) == b \div 2^n

RECURSIVE BitOr(_, _)
\* a | b
BitOr(a, b) ==
    IF a = 0 THEN b
    ELSE IF b = 0 THEN a
    ELSE 2 * BitOr(a \div 2, b \div 2) + (IF a % 2 = 1 \/ b % 2 = 1 THEN 1 ELSE 0)

RECURSIVE BitAnd(_, _)
\* a & b
BitAnd(a, b) ==
    IF a = 0 \/ b = 0 THEN 0
    ELSE 2 * BitAnd(a \div 2, b \div 2) + (IF a % 2 = 1 /\ b % 2 = 1 THEN 1 ELSE 0)

\* ((1u16 << width) - 1) as u8
LowMask(width) == (2^width - 1) % 256

\* bool as u8
BoolU8(bit) == IF bit THEN 1 ELSE 0

-----------------------------------------------------------------------------
(* 64-bit words: four 16-bit limbs, least significant first *)

Limb == 2^16

\* n as u64 / as i64, for a natural below 2^31
Word(n) == << n % Limb, n \div Limb, 0, 0 >>

\* the word as a natural, when it is below 2^31
WordNat(w) == w[1] + Limb * w[2]

\* whether the word is below 2^31, so that WordNat is its value
WordSmall(w) == w[3] = 0 /\ w[4] = 0 /\ w[2] < 32768

\* the sign bit of an i64
Negative(w) == w[4] >= 32768

\* 1i64 << n for n < 64
ShlOne(n) ==
    LET limb(i) == IF i = (n \div 16) + 1 THEN 2^(n % 16) ELSE 0
    IN  << limb(1), limb(2), limb(3), limb(4) >>

\* a < b on unsigned words
ULess(a, b) ==
    \E i \in 1..4 : a[i] < b[i] /\ \A j \in (i+1)..4 : a[j] = b[j]

\* a < b on i64
ILess(a, b) ==
    IF Negative(a) # Negative(b) THEN Negative(a) ELSE ULess(a, b)

\* i64::to_le_bytes / u64::to_le_bytes
to_le_bytes(w) ==
    << w[1] % 256, w[1] \div 256, w[2] % 256, w[2] \div 256,
       w[3] % 256, w[3] \div 256, w[4] % 256, w[4] \div 256 >>

\* (value << 8) | (byte as u64)
ShlByteOr(w, byte) ==
    << (w[1] % 256) * 256 + byte,
       (w[2] % 256) * 256 + w[1] \div 256,
       (w[3] % 256) * 256 + w[2] \div 256,
       (w[4] % 256) * 256 + w[3] \div 256 >>

\* (value << 1) | (bit as u64)
ShlBitOr(w, bit) ==
    << (w[1] % 32768) * 2 + bit,
       (w[2] % 32768) * 2 + w[1] \div 32768,
       (w[3] % 32768) * 2 + w[2] \div 32768,
       (w[4] % 32768) * 2 + w[3] \div 32768 >>

\* the low `width` bits of the word
MaskWord(w, width) ==
    LET limb(i) == IF width >= 16 * i THEN w[i]
                   ELSE IF width <= 16 * (i - 1) THEN 0
                   ELSE w[i] % 2^(width - 16 * (i - 1))
    IN  << limb(1), limb(2), limb(3), limb(4) >>

-----------------------------------------------------------------------------
(* Variable-length integers: bit_packer.rs, lines 5-27 *)

INT_WIDTHS == << 3, 7, 9, 15, 24, 45, 64 >>

\* the slot test on u64 instead of i64
SlotFits_unsigned(int, slot) ==
    INT_WIDTHS[slot + 1] >= 64 \/ ULess(int, ShlOne(INT_WIDTHS[slot + 1]))

\* INT_WIDTHS.iter().position(|&w| w >= 64 || int < (1i64 << w)), 0-based
SlotFits(int, slot) ==
    INT_WIDTHS[slot + 1] >= 64 \/ ILess(int, ShlOne(INT_WIDTHS[slot + 1]))

\* int_slot_width with the slot test off by one: int <= (1 << w)
int_slot_width_inclusive(int) ==
    LET fits == {s \in 0..(Len(INT_WIDTHS) - 1) :
                    \/ SlotFits(int, s)
                    \/ int = ShlOne(INT_WIDTHS[s + 1])}
        slot == IF fits = {} THEN Len(INT_WIDTHS) - 1
                ELSE CHOOSE s \in fits : \A t \in fits : s <= t
    IN  [slot |-> slot, width |-> INT_WIDTHS[slot + 1]]

int_slot_width(int) ==
    LET fits == {s \in 0..(Len(INT_WIDTHS) - 1) : SlotFits(int, s)}
        slot == IF fits = {} THEN Len(INT_WIDTHS) - 1
                ELSE CHOOSE s \in fits : \A t \in fits : s <= t
    IN  [slot |-> slot, width |-> INT_WIDTHS[slot + 1]]

\* int_encoded_bits counting no terminating 0 in any slot
int_encoded_bits_bare_prefix(int) == int_slot_width(int).slot + int_slot_width(int).width

int_encoded_bits(int) ==
    LET sw == int_slot_width(int)
        prefix_bits == IF sw.slot = Len(INT_WIDTHS) - 1 THEN sw.slot ELSE sw.slot + 1
    IN  prefix_bits + sw.width

-----------------------------------------------------------------------------
(* BitPacker: bit_packer.rs, lines 96-194.  A packer is the record         *)
(* [buffer, bit_offset].                                                   *)

\* BitPacker::new without buffer.clear(): the zero byte follows what was there
BitPacker_new_append(buf) == [buffer |-> Append(buf, 0), bit_offset |-> 0]

\* BitPacker::new: the buffer is cleared and holds one zero byte
BitPacker_new(buf) == [buffer |-> << 0 >>, bit_offset |-> 0]

ensure_space(p) ==
    IF p.bit_offset = 8
    THEN [buffer |-> Append(p.buffer, 0), bit_offset |-> 0]
    ELSE p

\* write_bit that makes room for the next bit as soon as a byte is full
write_bit_eager(p, bit) ==
    LET q == ensure_space(p)
        last == Len(q.buffer)
    IN  ensure_space([buffer |-> [q.buffer EXCEPT
                                     ![last] = BitOr(@, Shl8(BoolU8(bit), 7 - q.bit_offset))],
                      bit_offset |-> q.bit_offset + 1])

write_bit(p, bit) ==
    LET q == ensure_space(p)
        last == Len(q.buffer)
    IN  [buffer |-> [q.buffer EXCEPT
                        ![last] = BitOr(@, Shl8(BoolU8(bit), 7 - q.bit_offset))],
         bit_offset |-> q.bit_offset + 1]

write_bits(p, bits0, width) ==
    LET q == ensure_space(p)
        bits == BitAnd(bits0, LowMask(width))
        space == 8 - q.bit_offset
        last == Len(q.buffer)
    IN  IF width <= space
        THEN [buffer |-> [q.buffer EXCEPT ![last] = BitOr(@, Shl8(bits, space - width))],
              bit_offset |-> q.bit_offset + width]
        ELSE LET overflow == width - space
             IN  [buffer |-> Append([q.buffer EXCEPT ![last] = BitOr(@, Shr8(bits, overflow))],
                                    Shl8(bits, 8 - overflow)),
                  bit_offset |-> overflow]

\* write_byte that loses the high part of an unaligned byte
write_byte_low_only(p, byte) ==
    LET q == ensure_space(p)
        last == Len(q.buffer)
    IN  IF q.bit_offset = 0
        THEN [buffer |-> [q.buffer EXCEPT ![last] = byte], bit_offset |-> 8]
        ELSE [buffer |-> Append(q.buffer, Shl8(byte, 8 - q.bit_offset)),
              bit_offset |-> q.bit_offset]

write_byte(p, byte) ==
    LET q == ensure_space(p)
        last == Len(q.buffer)
    IN  IF q.bit_offset = 0
        THEN [buffer |-> [q.buffer EXCEPT ![last] = byte], bit_offset |-> 8]
        ELSE [buffer |-> Append([q.buffer EXCEPT ![last] = BitOr(@, Shr8(byte, q.bit_offset))],
                                Shl8(byte, 8 - q.bit_offset)),
              bit_offset |-> q.bit_offset]

RECURSIVE write_bytes_rev(_, _, _)
\* for i in (0..full_bytes).rev() { self.write_byte(bytes[i]) }
write_bytes_rev(p, bytes, n) ==
    IF n = 0 THEN p
    ELSE write_bytes_rev(write_byte(p, bytes[n]), bytes, n - 1)

write_bytes_width(p, bytes, width) ==
    LET high_bits == width % 8
        full_bytes == width \div 8
        q == IF high_bits > 0 THEN write_bits(p, bytes[full_bytes + 1], high_bits) ELSE p
    IN  write_bytes_rev(q, bytes, full_bytes)

RECURSIVE write_ones(_, _)
\* for _ in 0..slot { self.write_bit(true) }
write_ones(p, n) ==
    IF n = 0 THEN p ELSE write_ones(write_bit(p, TRUE), n - 1)

\* write_int that spends a single 0 bit on zero
write_int_short_zero(p, int) ==
    IF int = << 0, 0, 0, 0 >> THEN write_bit(p, FALSE)
    ELSE LET sw == int_slot_width(int)
             q == write_ones(p, sw.slot)
             r == IF sw.slot < Len(INT_WIDTHS) - 1 THEN write_bit(q, FALSE) ELSE q
         IN  write_bytes_width(r, to_le_bytes(int), sw.width)

write_int(p, int) ==
    LET sw == int_slot_width(int)
        q == write_ones(p, sw.slot)
        r == IF sw.slot < Len(INT_WIDTHS) - 1 THEN write_bit(q, FALSE) ELSE q
    IN  write_bytes_width(r, to_le_bytes(int), sw.width)

-----------------------------------------------------------------------------
(* BitUnpacker: bit_packer.rs, lines 280-372.  An unpacker is the record   *)
(* [buffer, byte_index, bit_offset]; a read returns [ok, val, u], with u   *)
(* the unpacker as the read left it.                                       *)

BitUnpacker_new(buf) == [buffer |-> buf, byte_index |-> 0, bit_offset |-> 0]

\* self.buffer.get(i)
HasByte(u, i) == i < Len(u.buffer)
ByteAt(u, i) == u.buffer[i + 1]

NoData(u) == [ok |-> FALSE, val |-> 0, u |-> u]
Some(v, u) == [ok |-> TRUE, val |-> v, u |-> u]

advance(u) ==
    IF u.bit_offset + 1 = 8
    THEN [u EXCEPT !.byte_index = @ + 1, !.bit_offset = 0]
    ELSE [u EXCEPT !.bit_offset = @ + 1]

read_bit(u) ==
    IF ~HasByte(u, u.byte_index) THEN NoData(u)
    ELSE LET byte == ByteAt(u, u.byte_index)
             bit == BitAnd(Shr8(byte, 7 - u.bit_offset), 1) # 0
         IN  Some(bit, advance(u))

read_bits(u, width) ==
    LET space == 8 - u.bit_offset
    IN  IF ~HasByte(u, u.byte_index) THEN NoData(u)
        ELSE LET byte == ByteAt(u, u.byte_index)
                 mask == LowMask(width)
             IN  IF width <= space
                 THEN LET result == BitAnd(Shr8(byte, space - width), mask)
                          off == u.bit_offset + width
                      IN  Some(result,
                               IF off = 8
                               THEN [u EXCEPT !.byte_index = @ + 1, !.bit_offset = 0]
                               ELSE [u EXCEPT !.bit_offset = off])
                 ELSE LET overflow == width - space
                          first == BitAnd(byte, Shl8(1, space) - 1)
                          u1 == [u EXCEPT !.byte_index = @ + 1]
                      IN  IF ~HasByte(u1, u1.byte_index) THEN NoData(u1)
                          ELSE LET second == Shr8(ByteAt(u1, u1.byte_index), 8 - overflow)
                               IN  Some(BitOr(Shl8(first, overflow), second),
                                        [u1 EXCEPT !.bit_offset = overflow])

\* read_byte that gives the bits left of the last byte when no byte follows
read_byte_short_at_end(u) ==
    IF ~HasByte(u, u.byte_index) THEN NoData(u)
    ELSE LET byte == ByteAt(u, u.byte_index)
             u1 == [u EXCEPT !.byte_index = @ + 1]
         IN  IF u.bit_offset = 0 THEN Some(byte, u1)
             ELSE IF ~HasByte(u1, u1.byte_index) THEN Some(Shl8(byte, u.bit_offset), u1)
             ELSE Some(BitOr(Shl8(byte, u.bit_offset),
                             Shr8(ByteAt(u1, u1.byte_index), 8 - u.bit_offset)), u1)

read_byte(u) ==
    IF ~HasByte(u, u.byte_index) THEN NoData(u)
    ELSE LET byte == ByteAt(u, u.byte_index)
             u1 == [u EXCEPT !.byte_index = @ + 1]
         IN  IF u.bit_offset = 0 THEN Some(byte, u1)
             ELSE LET space == 8 - u.bit_offset
                  IN  IF ~HasByte(u1, u1.byte_index) THEN NoData(u1)
                      ELSE Some(BitOr(Shl8(byte, u.bit_offset),
                                      Shr8(ByteAt(u1, u1.byte_index), space)), u1)

RECURSIVE read_full_bytes(_, _)
\* for _ in 0..full_bytes { value = (value << 8) | (self.read_byte()? as u64) }
\* st is Some(value, unpacker) so far
read_full_bytes(st, n) ==
    IF n = 0 THEN st
    ELSE LET r == read_byte(st.u)
         IN  IF ~r.ok THEN NoData(r.u)
             ELSE read_full_bytes(Some(ShlByteOr(st.val, r.val), r.u), n - 1)

read_bytes_width(u, width) ==
    LET high_bits == width % 8
        full_bytes == width \div 8
        h == IF high_bits > 0 THEN read_bits(u, high_bits) ELSE Some(0, u)
    IN  IF ~h.ok THEN NoData(h.u)
        ELSE read_full_bytes(Some(Word(h.val), h.u), full_bytes)

RECURSIVE read_slot(_, _)
\* while slot < 6 && self.read_bit()? { slot += 1 }
read_slot(u, slot) ==
    IF slot >= 6 THEN Some(slot, u)
    ELSE LET r == read_bit(u)
         IN  IF ~r.ok THEN NoData(r.u)
             ELSE IF r.val THEN read_slot(r.u, slot + 1)
             ELSE Some(slot, r.u)

read_int(u) ==
    LET s == read_slot(u, 0)
    IN  IF ~s.ok THEN NoData(s.u)
        ELSE read_bytes_width(s.u, INT_WIDTHS[s.val + 1])

\* byte_index * 8 + bit_offset
Position(u) == u.byte_index * 8 + u.bit_offset

-----------------------------------------------------------------------------
(* u64 arithmetic with a small operand (below 2^15, so a limb product      *)
(* stays inside TLC's integers)                                            *)

\* w * m: [val |-> the low 64 bits, overflow |-> whether bits were lost]
MulSmall(w, m) ==
    LET t1 == w[1] * m
        t2 == w[2] * m + t1 \div Limb
        t3 == w[3] * m + t2 \div Limb
        t4 == w[4] * m + t3 \div Limb
    IN  [val |-> << t1 % Limb, t2 % Limb, t3 % Limb, t4 % Limb >>,
         overflow |-> t4 \div Limb > 0]

\* w + v: [val, overflow]
AddSmall(w, v) ==
    LET t1 == w[1] + v
        t2 == w[2] + t1 \div Limb
        t3 == w[3] + t2 \div Limb
        t4 == w[4] + t3 \div Limb
    IN  [val |-> << t1 % Limb, t2 % Limb, t3 % Limb, t4 % Limb >>,
         overflow |-> t4 \div Limb > 0]

\* w / m and w % m, m > 0
DivModSmall(w, m) ==
    LET c4 == w[4]
        c3 == (c4 % m) * Limb + w[3]
        c2 == (c3 % m) * Limb + w[2]
        c1 == (c2 % m) * Limb + w[1]
    IN  [quot |-> << c1 \div m, c2 \div m, c3 \div m, c4 \div m >>, rem |-> c1 % m]

IsZero(w) == \A i \in 1..4 : w[i] = 0

\* w - 1 for w > 0
Dec(w) ==
    LET i == CHOOSE j \in 1..4 : w[j] # 0 /\ \A l \in 1..(j - 1) : w[l] = 0
        limb(j) == IF j < i THEN Limb - 1 ELSE IF j = i THEN w[j] - 1 ELSE w[j]
    IN  << limb(1), limb(2), limb(3), limb(4) >>

RECURSIVE BitLen(_)
\* bits needed for a natural
BitLen(n) == IF n = 0 THEN 0 ELSE 1 + BitLen(n \div 2)

\* 64 - w.leading_zeros()
WordBits(w) ==
    IF IsZero(w) THEN 0
    ELSE LET top == CHOOSE j \in 1..4 : w[j] # 0 /\ \A l \in (j + 1)..4 : w[l] = 0
         IN  16 * (top - 1) + BitLen(w[top])

RECURSIVE pow_loop(_, _, _)
\* n checked multiplications by m, run as two halves; st is [ok, val]
pow_loop(m, st, n) ==
    IF n = 0 \/ ~st.ok THEN st
    ELSE IF n = 1
    THEN LET q == MulSmall(st.val, m)
         IN  IF q.overflow THEN [ok |-> FALSE, val |-> Word(0)]
             ELSE [ok |-> TRUE, val |-> q.val]
    ELSE pow_loop(m, pow_loop(m, st, n \div 2), n - (n \div 2))

\* max_value.checked_pow(k): [ok, val]
checked_pow(m, k) == pow_loop(m, [ok |-> TRUE, val |-> Word(1)], k)

-----------------------------------------------------------------------------
(* ultra_packer.rs.  max_value is an alphabet size, 1 <= max_value < 2^15. *)

\* the largest bundle size find_optimal_bundle tries
MAX_BUNDLE_K == 40

RECURSIVE find_optimal_loop_last_tie(_, _, _)
\* the loop keeping the later k when two bundle sizes cost the same
find_optimal_loop_last_tie(max_value, st, n) ==
    IF n = 0 \/ st.done THEN st
    ELSE IF n = 1
    THEN LET max_bundle == MulSmall(st.prev, max_value)
             bits_needed == WordBits(Dec(max_bundle.val))
         IN  IF max_bundle.overflow \/ IsZero(max_bundle.val)
             THEN [st EXCEPT !.done = TRUE]
             ELSE IF bits_needed * st.best_den <= st.best_num * st.k
             THEN [k |-> st.k + 1, prev |-> max_bundle.val, best_k |-> st.k,
                   best_num |-> bits_needed, best_den |-> st.k, done |-> FALSE]
             ELSE [st EXCEPT !.k = st.k + 1, !.prev = max_bundle.val]
    ELSE find_optimal_loop_last_tie(max_value,
                                    find_optimal_loop_last_tie(max_value, st, n \div 2),
                                    n - (n \div 2))

RECURSIVE find_optimal_loop(_, _, _)
\* n turns of the while loop of find_optimal_bundle, run as two halves.  st is
\* [k, prev, best_k, best_num, best_den, done]: prev is max_value^(k-1), so
\* that max_value.checked_pow(k) is prev * max_value, checked; done is set by
\* a break.  bits_per_val is the f64 quotient best_num / best_den of two
\* integers below 2^7; f64 division is correctly rounded, so two such
\* quotients compare as the fractions do.
find_optimal_loop(max_value, st, n) ==
    IF n = 0 \/ st.done THEN st
    ELSE IF n = 1
    THEN LET max_bundle == MulSmall(st.prev, max_value)
             bits_needed == WordBits(Dec(max_bundle.val))
         IN  IF max_bundle.overflow \/ IsZero(max_bundle.val)
             THEN [st EXCEPT !.done = TRUE]
             ELSE IF bits_needed * st.best_den < st.best_num * st.k
             THEN [k |-> st.k + 1, prev |-> max_bundle.val, best_k |-> st.k,
                   best_num |-> bits_needed, best_den |-> st.k, done |-> FALSE]
             ELSE [st EXCEPT !.k = st.k + 1, !.prev = max_bundle.val]
    ELSE find_optimal_loop(max_value, find_optimal_loop(max_value, st, n \div 2),
                           n - (n \div 2))

\* find_optimal_bundle that keeps the naive one symbol per bundle
find_optimal_bundle_naive(max_value) ==
    [k |-> 1, b |-> IF max_value = 0 THEN 0 ELSE BitLen(max_value)]

find_optimal_bundle(max_value) ==
    LET naive_bits == IF max_value = 0 THEN 0 ELSE BitLen(max_value)
        best_k == find_optimal_loop(max_value,
                                    [k |-> 1, prev |-> Word(1), best_k |-> 1,
                                     best_num |-> naive_bits, best_den |-> 1,
                                     done |-> FALSE],
                                    MAX_BUNDLE_K).best_k
        max_bundle == checked_pow(max_value, best_k).val
    IN  [k |-> best_k, b |-> WordBits(Dec(max_bundle))]

RECURSIVE encode_loop(_, _, _, _, _)
\* for &val in values { assert!(val < max_value); bundle = bundle * max_value + val }
\* n turns from values[i], run as two halves; st is [ok, val], ok FALSE once
\* an assert has failed or the arithmetic has overflowed
encode_loop(max_value, values, st, i, n) ==
    IF n = 0 \/ ~st.ok THEN st
    ELSE IF n = 1
    THEN LET m == MulSmall(st.val, max_value)
             a == AddSmall(m.val, values[i])
         IN  IF ~(values[i] < max_value) THEN [ok |-> FALSE, val |-> st.val]
             ELSE [ok |-> ~m.overflow /\ ~a.overflow, val |-> a.val]
    ELSE encode_loop(max_value, values, encode_loop(max_value, values, st, i, n \div 2),
                     i + (n \div 2), n - (n \div 2))

encode(bundle_size, max_value, values) ==
    IF Len(values) # bundle_size THEN [ok |-> FALSE, val |-> Word(0)]
    ELSE encode_loop(max_value, values, [ok |-> TRUE, val |-> Word(0)], 1, Len(values))

RECURSIVE decode_loop(_, _, _)
\* for i in (0..bundle_size).rev() { values[i] = bundle % max_value; bundle /= max_value }
\* n turns, run as two halves; st is [bundle, values, i]: i turns are left,
\* values[i..] are filled in
decode_loop(max_value, st, n) ==
    IF n = 0 \/ st.i = 0 THEN st
    ELSE IF n = 1
    THEN LET d == DivModSmall(st.bundle, max_value)
         IN  [bundle |-> d.quot, values |-> << d.rem >> \o st.values, i |-> st.i - 1]
    ELSE decode_loop(max_value, decode_loop(max_value, st, n \div 2), n - (n \div 2))

RECURSIVE decode_forward_loop(_, _, _)
decode_forward_loop(max_value, st, n) ==
    IF n = 0 \/ st.i = 0 THEN st
    ELSE IF n = 1
    THEN LET d == DivModSmall(st.bundle, max_value)
         IN  [bundle |-> d.quot, values |-> Append(st.values, d.rem), i |-> st.i - 1]
    ELSE decode_forward_loop(max_value, decode_forward_loop(max_value, st, n \div 2),
                             n - (n \div 2))

\* decode that fills values front to back (the loop without .rev())
decode_forward(bundle_size, max_value, bundle) ==
    decode_forward_loop(max_value,
                        [bundle |-> bundle, values |-> << >>, i |-> bundle_size],
                        bundle_size).values

decode(bundle_size, max_value, bundle) ==
    decode_loop(max_value, [bundle |-> bundle, values |-> << >>, i |-> bundle_size],
                bundle_size).values

write_bundle(packer, bits_per_bundle, bundle) ==
    write_bytes_width(packer, to_le_bytes(bundle), bits_per_bundle)

RECURSIVE read_bundle_loop(_, _)
\* for _ in 0..bits_per_bundle { value = (value << 1) | (unpacker.read_bit()? as u64) }
\* st is Some(value, unpacker) so far, or the failed read; the n iterations
\* are run as two halves
read_bundle_loop(st, n) ==
    IF n = 0 \/ ~st.ok THEN st
    ELSE IF n = 1
    THEN LET r == read_bit(st.u)
         IN  IF ~r.ok THEN NoData(r.u)
             ELSE Some(ShlBitOr(st.val, BoolU8(r.val)), r.u)
    ELSE read_bundle_loop(read_bundle_loop(st, n \div 2), n - (n \div 2))

read_bundle(u, bits_per_bundle) == read_bundle_loop(Some(Word(0), u), bits_per_bundle)

-----------------------------------------------------------------------------
(* The bit streams as a machine: a packer over `buffer` is written, then a *)
(* BitUnpacker over the same bytes reads the paired values back.           *)

\* bit-level writes in one run
MaxOps == 3

AllOnes == << Limb - 1, Limb - 1, Limb - 1, Limb - 1 >>

\* write_bits arguments << bits, width >>, width in 1..=8
BitsSamples == { << 5, 3 >>, << 240, 8 >>, << 255, 1 >>, << 170, 5 >>, << 203, 7 >> }

ByteSamples == { 0, 249, 255 }

\* write_bytes_width arguments << word, width >>
WidthSamples ==
    { << AllOnes, 9 >>, << AllOnes, 45 >>, << Word(100000), 24 >>,
      << << 4660, 22136, 39612, 57072 >>, 64 >>, << << 4660, 22136, 0, 0 >>, 16 >>,
      << AllOnes, 0 >> }

\* write_int arguments: both ends of every slot of INT_WIDTHS, 0 <= n < 2^63
IntSamples ==
    { Word(0), Word(7), Word(8), Word(42), Word(127), Word(128), Word(511), Word(512),
      Word(1000), Word(32767), Word(32768), Word(100000), Word(16777215), Word(16777216),
      << Limb - 1, Limb - 1, 8191, 0 >>, << 0, 0, 8192, 0 >>,
      << Limb - 1, Limb - 1, Limb - 1, 32767 >> }

Packer == [buffer |-> buffer, bit_offset |-> bit_offset]

SetPacker(p) == buffer' = p.buffer /\ bit_offset' = p.bit_offset

\* bits the packer has written into `buffer`
PackerBits == (Len(buffer) - 1) * 8 + bit_offset

Log(op, v, w) == oplog' = Append(oplog, [op |-> op, v |-> v, w |-> w])

CanWrite == pc = "write" /\ Len(oplog) < MaxOps

WriteFrame == UNCHANGED << serVars, deVars, unpacker, nread, ultra, pc, ret >>

WriteBit(bit) ==
    /\ CanWrite
    /\ SetPacker(write_bit(Packer, bit))
    /\ Log("bit", bit, 1)
    /\ call' = [op |-> "write_bit"]
    /\ WriteFrame

WriteBits(bits, width) ==
    /\ CanWrite
    /\ SetPacker(write_bits(Packer, bits, width))
    /\ Log("bits", bits, width)
    /\ call' = [op |-> "write_bits"]
    /\ WriteFrame

WriteByte(byte) ==
    /\ CanWrite
    /\ SetPacker(write_byte(Packer, byte))
    /\ Log("byte", byte, 8)
    /\ call' = [op |-> "write_byte"]
    /\ WriteFrame

WriteBytesWidth(word, width) ==
    /\ CanWrite
    /\ SetPacker(write_bytes_width(Packer, to_le_bytes(word), width))
    /\ Log("bytes_width", word, width)
    /\ call' = [op |-> "write_bytes_width"]
    /\ WriteFrame

WriteInt(int) ==
    /\ CanWrite
    /\ SetPacker(write_int(Packer, int))
    /\ Log("int", int, int_encoded_bits(int))
    /\ call' = [op |-> "write_int"]
    /\ WriteFrame

\* BitUnpacker::new(&buffer)
StartRead ==
    /\ pc = "write"
    /\ ultra.pc \in {"none", "ready"}
    /\ pc' = "read"
    /\ unpacker' = BitUnpacker_new(buffer)
    /\ call' = [op |-> "BitUnpacker::new"]
    /\ UNCHANGED << serVars, deVars, buffer, bit_offset, bitVars, ultra, ret >>

NextOp == oplog[nread + 1]

CanRead(op) == pc = "read" /\ nread < Len(oplog) /\ NextOp.op = op

Read(name, r) ==
    /\ unpacker' = r.u
    /\ ret' = [ok |-> r.ok, val |-> r.val]
    /\ nread' = nread + 1
    /\ call' = [op |-> name, from |-> Position(unpacker)]
    /\ UNCHANGED << serVars, deVars, buffer, bit_offset, oplog, pc >>

ReadBit == CanRead("bit") /\ Read("read_bit", read_bit(unpacker)) /\ UNCHANGED ultra

ReadBits ==
    CanRead("bits") /\ Read("read_bits", read_bits(unpacker, NextOp.w)) /\ UNCHANGED ultra

ReadByte == CanRead("byte") /\ Read("read_byte", read_byte(unpacker)) /\ UNCHANGED ultra

ReadBytesWidth ==
    /\ CanRead("bytes_width")
    /\ Read("read_bytes_width", read_bytes_width(unpacker, NextOp.w))
    /\ UNCHANGED ultra

ReadInt == CanRead("int") /\ Read("read_int", read_int(unpacker)) /\ UNCHANGED ultra

InitIdle ==
    /\ integers = << >> /\ strings = << >> /\ booleans = << >> /\ property_types = << >>
    /\ d_integers = << >> /\ d_strings = << >> /\ d_booleans = << >>
    /\ d_property_types = << >>
    /\ fields = << >>
    /\ oplog = << >> /\ nread = 0
    /\ unpacker = BitUnpacker_new(<< >>)
    /\ ultra = [pc |-> "none"]
    /\ call = [op |-> "new"]
    /\ ret = [ok |-> TRUE, val |-> 0]

\* the state after BitPacker::new(&mut buffer)
InitBits ==
    /\ InitIdle
    /\ buffer = BitPacker_new(<< >>).buffer
    /\ bit_offset = BitPacker_new(<< >>).bit_offset
    /\ pc = "write"

NextBits ==
    \/ \E bit \in BOOLEAN : WriteBit(bit)
    \/ \E a \in BitsSamples : WriteBits(a[1], a[2])
    \/ \E byte \in ByteSamples : WriteByte(byte)
    \/ \E a \in WidthSamples : WriteBytesWidth(a[1], a[2])
    \/ StartRead
    \/ ReadBit
    \/ ReadBits
    \/ ReadByte
    \/ ReadBytesWidth

SpecBits == InitBits /\ [][NextBits]_vars

NextInt ==
    \/ \E int \in IntSamples : WriteInt(int)
    \/ StartRead
    \/ ReadInt

SpecInt == InitBits /\ [][NextInt]_vars

\* what the i-th write must read back as: the value, masked to its width
Expected(e) ==
    CASE e.op = "bits" -> e.v % 2^e.w
      [] e.op = "bytes_width" -> MaskWord(e.v, e.w)
      [] OTHER -> e.v

RECURSIVE SumWidths(_)
SumWidths(log) == IF log = << >> THEN 0 ELSE Head(log).w + SumWidths(Tail(log))

\* C3: every paired read returns the written value masked to its width, and
\* after the last read the reader stands at the number of bits written.
C3_BitStreamInverse ==
    pc = "read" =>
        /\ nread > 0 => ret.ok /\ ret.val = Expected(oplog[nread])
        /\ nread = Len(oplog) =>
              /\ Position(unpacker) = PackerBits
              /\ PackerBits = SumWidths(oplog)

\* the sanity test of bit_packer.rs, read back to the end
C3_Witness ==
    /\ pc = "read" /\ nread = 3 /\ Len(oplog) = 3
    /\ oplog[1].op = "bits" /\ oplog[1].w = 3
    /\ oplog[2].op = "bits" /\ oplog[2].w = 8
    /\ oplog[3].op = "bit"
    /\ ret.ok /\ ret.val = TRUE

\* C2: read_int returns what write_int wrote and consumes exactly
\* int_encoded_bits(n) bits, so back-to-back varints read back in order.
C2_VarIntRoundTrip ==
    pc = "read" =>
        /\ nread > 0 =>
              /\ ret.ok /\ ret.val = oplog[nread].v
              /\ Position(unpacker) - call.from = int_encoded_bits(oplog[nread].v)
        /\ nread = Len(oplog) => Position(unpacker) = PackerBits

\* the sanity_int test of bit_packer.rs: 42, 1000, 100000 read back in order
C2_Witness ==
    /\ pc = "read" /\ nread = 3 /\ Len(oplog) = 3
    /\ oplog[1].v = Word(42) /\ oplog[2].v = Word(1000) /\ oplog[3].v = Word(100000)
    /\ ret.ok /\ ret.val = Word(100000)

\* the varints written so far, each of at most `wide` bits when below 2^15
VarIntLengths(wide) ==
    /\ \A i \in DOMAIN oplog :
          /\ ILess(oplog[i].v, Word(8)) => oplog[i].w = 4
          /\ ILess(oplog[i].v, Word(128)) => oplog[i].w <= 10
          /\ ILess(oplog[i].v, Word(32768)) => oplog[i].w <= wide
    /\ PackerBits = SumWidths(oplog)

\* C14: the encoded length of a varint, as int_encoded_bits computes it and
\* write_int emits it, is exactly 4 bits for every n < 8, at most 10 bits for
\* every n < 128 and at most 18 bits for every n < 2^15.
C14_VarIntLengths == VarIntLengths(18)

\* C14 as amended: exactly 4 bits for every n < 8, at most 10 bits for every
\* n < 128 and at most 19 bits for every n < 2^15.
C14_VarIntLengthsAmended == VarIntLengths(19)

\* 7, 127 and 32767 written back to back: 4, 9 and 19 bits
C14_Witness ==
    /\ pc = "write" /\ Len(oplog) = 3
    /\ oplog[1].v = Word(7) /\ oplog[2].v = Word(127) /\ oplog[3].v = Word(32767)
    /\ oplog[3].w = 19
    /\ PackerBits = 4 + 9 + 19

-----------------------------------------------------------------------------
(* Ultrapack bundles as a machine: for an alphabet size M the bundle shape *)
(* (k, b) is chosen, k-tuples of digits are encoded and written back to    *)
(* back, then read and decoded in the same order.                          *)

\* largest alphabet size tried (build_charset yields at most 7+26+10+26+26)
MaxAlphabet == 95

\* bundles written in one run
MaxBundles == 2

DigitPatterns == { "zeros", "max", "ramp", "first", "last" }

\* a k-tuple of digits, each below M
Digits(pattern, M, k) ==
    [i \in 1..k |->
        CASE pattern = "zeros" -> 0
          [] pattern = "max" -> M - 1
          [] pattern = "ramp" -> (i - 1) % M
          [] pattern = "first" -> IF i = 1 THEN M - 1 ELSE 0
          [] pattern = "last" -> IF i = k THEN M - 1 ELSE 0]

InitBundle ==
    /\ integers = << >> /\ strings = << >> /\ booleans = << >> /\ property_types = << >>
    /\ d_integers = << >> /\ d_strings = << >> /\ d_booleans = << >>
    /\ d_property_types = << >>
    /\ fields = << >>
    /\ oplog = << >> /\ nread = 0
    /\ unpacker = BitUnpacker_new(<< >>)
    /\ call = [op |-> "new"]
    /\ ret = [ok |-> TRUE, val |-> 0]
    /\ buffer = BitPacker_new(<< >>).buffer
    /\ bit_offset = BitPacker_new(<< >>).bit_offset
    /\ pc = "write"
    /\ \E M \in 1..MaxAlphabet :
          ultra = [pc |-> "init", M |-> M, k |-> 0, b |-> 0, ok |-> TRUE,
                   digits |-> << >>, bundle |-> Word(0), emitted |-> 0, decoded |-> << >>]

FindOptimalBundle ==
    /\ ultra.pc = "init"
    /\ LET kb == find_optimal_bundle(ultra.M)
       IN  ultra' = [ultra EXCEPT !.pc = "ready", !.k = kb.k, !.b = kb.b]
    /\ call' = [op |-> "find_optimal_bundle"]
    /\ UNCHANGED << serVars, deVars, buffer, bit_offset, unpacker, bitVars, pc, ret >>

Encode(pattern) ==
    /\ ultra.pc = "ready" /\ pc = "write" /\ Len(oplog) < MaxBundles
    /\ LET values == Digits(pattern, ultra.M, ultra.k)
           e == encode(ultra.k, ultra.M, values)
       IN  ultra' = [ultra EXCEPT !.pc = "encoded", !.digits = values,
                                  !.bundle = e.val, !.ok = e.ok]
    /\ call' = [op |-> "encode"]
    /\ UNCHANGED << serVars, deVars, buffer, bit_offset, unpacker, bitVars, pc, ret >>

WriteBundle ==
    /\ ultra.pc = "encoded" /\ ultra.ok
    /\ SetPacker(write_bundle(Packer, ultra.b, ultra.bundle))
    /\ Log("bundle", [bundle |-> ultra.bundle, digits |-> ultra.digits], ultra.b)
    /\ ultra' = [ultra EXCEPT !.pc = "ready", !.emitted = PackerBits' - PackerBits]
    /\ call' = [op |-> "write_bundle"]
    /\ UNCHANGED << serVars, deVars, unpacker, nread, pc, ret >>

ReadBundle ==
    /\ CanRead("bundle") /\ ultra.pc \in {"ready", "decoded"}
    /\ Read("read_bundle", read_bundle(unpacker, ultra.b))
    /\ ultra' = [ultra EXCEPT !.pc = "read"]

Decode ==
    /\ ultra.pc = "read" /\ ret.ok
    /\ ultra' = [ultra EXCEPT !.pc = "decoded",
                              !.decoded = decode(ultra.k, ultra.M, ret.val)]
    /\ call' = [op |-> "decode"]
    /\ UNCHANGED << serVars, deVars, buffer, bit_offset, unpacker, bitVars, pc, ret >>

NextBundle ==
    \/ FindOptimalBundle
    \/ \E pattern \in DigitPatterns : Encode(pattern)
    \/ WriteBundle
    \/ StartRead
    \/ ReadBundle
    \/ Decode

SpecBundle == InitBundle /\ [][NextBundle]_vars

\* C10: with (k, b) = find_optimal_bundle(M), a k-tuple of digits below M
\* survives encode, write_bundle, read_bundle and decode, and write_bundle
\* emits exactly b bits.
C10_BundleRoundTrip ==
    /\ ultra.pc = "encoded" => ultra.ok
    /\ call.op = "write_bundle" => ultra.emitted = ultra.b
    /\ ultra.pc = "read" => ret.ok /\ ret.val = oplog[nread].v.bundle
    /\ ultra.pc = "decoded" =>
          /\ Len(ultra.decoded) = ultra.k
          /\ ultra.decoded = oplog[nread].v.digits

\* two bundles over the 33-letter alphabet, the second one (all digits 32,
\* written across byte boundaries) decoded
C10_Witness ==
    /\ ultra.pc = "decoded" /\ ultra.M = 33 /\ nread = 2
    /\ oplog[2].v.digits = [i \in 1..ultra.k |-> 32]
    /\ ultra.decoded = oplog[2].v.digits
    /\ ultra.b % 8 # 0

-----------------------------------------------------------------------------
(* Strings.  A string is the sequence of its Unicode scalar values; its    *)
(* bytes are its UTF-8 encoding, as str::as_bytes gives them.              *)

\* the UTF-8 encoding of one scalar value
utf8_char(c) ==
    IF c < 128 THEN << c >>
    ELSE IF c < 2048 THEN << 192 + (c \div 64), 128 + (c % 64) >>
    ELSE IF c < 65536
    THEN << 224 + (c \div 4096), 128 + ((c \div 64) % 64), 128 + (c % 64) >>
    ELSE << 240 + (c \div 262144), 128 + ((c \div 4096) % 64),
            128 + ((c \div 64) % 64), 128 + (c % 64) >>

RECURSIVE as_bytes(_)
as_bytes(s) == IF s = << >> THEN << >> ELSE utf8_char(Head(s)) \o as_bytes(Tail(s))

\* String::from_utf8_lossy: well-formed sequences decode to their scalar
\* value, every maximal ill-formed prefix to U+FFFD
RECURSIVE from_utf8_lossy(_)
from_utf8_lossy(bytes) ==
    IF bytes = << >> THEN << >>
    ELSE LET n == Len(bytes)
             b1 == bytes[1]
             cont(i) == i <= n /\ bytes[i] >= 128 /\ bytes[i] <= 191
             width == IF b1 < 128 THEN 1
                      ELSE IF b1 >= 194 /\ b1 <= 223 THEN 2
                      ELSE IF b1 >= 224 /\ b1 <= 239 THEN 3
                      ELSE IF b1 >= 240 /\ b1 <= 244 THEN 4
                      ELSE 0
             lo2 == IF b1 = 224 THEN 160 ELSE IF b1 = 240 THEN 144 ELSE 128
             hi2 == IF b1 = 237 THEN 159 ELSE IF b1 = 244 THEN 143 ELSE 191
             second == n >= 2 /\ bytes[2] >= lo2 /\ bytes[2] <= hi2
             good == IF width <= 1 THEN width
                     ELSE IF ~second THEN 0
                     ELSE IF width = 2 THEN 2
                     ELSE IF ~cont(3) THEN 0
                     ELSE IF width = 3 THEN 3
                     ELSE IF ~cont(4) THEN 0 ELSE 4
             bad == IF width <= 1 \/ ~second THEN 1
                    ELSE IF ~cont(3) THEN 2 ELSE 3
             value == CASE good = 1 -> b1
                        [] good = 2 -> (b1 - 192) * 64 + (bytes[2] - 128)
                        [] good = 3 -> (b1 - 224) * 4096 + (bytes[2] - 128) * 64
                                           + (bytes[3] - 128)
                        [] good = 4 -> (b1 - 240) * 262144 + (bytes[2] - 128) * 4096
                                           + (bytes[3] - 128) * 64 + (bytes[4] - 128)
                        [] OTHER -> 65533
             used == IF good > 0 THEN good ELSE bad
         IN  << value >> \o from_utf8_lossy(SubSeq(bytes, used + 1, n))

-----------------------------------------------------------------------------
(* Character sets of the ultrapacked ASCII strings: bit_packer.rs 29-94.   *)

CHARSETS == 4
CHARSET_UPPER == 1
CHARSET_LOWER == 2^1
CHARSET_NUMERAL == 2^2
CHARSET_RARE_PUNCT == 2^3

\* b" ,-./:_"
COMMON_PUNCT == << 32, 44, 45, 46, 47, 58, 95 >>
LOWER_CASE == << 97, 98, 99, 100, 101, 102, 103, 104, 105, 106, 107, 108, 109,
                 110, 111, 112, 113, 114, 115, 116, 117, 118, 119, 120, 121, 122 >>
UPPER_CASE == << 65, 66, 67, 68, 69, 70, 71, 72, 73, 74, 75, 76, 77,
                 78, 79, 80, 81, 82, 83, 84, 85, 86, 87, 88, 89, 90 >>
DIGITS == << 48, 49, 50, 51, 52, 53, 54, 55, 56, 57 >>
\* b"!\"#$%&'()*+;<=>?@[\\]^`{|}~"
RARE_PUNCT == << 33, 34, 35, 36, 37, 38, 39, 40, 41, 42, 43, 59, 60, 61, 62, 63, 64,
                 91, 92, 93, 94, 96, 123, 124, 125, 126 >>

is_common_punct(c) == c \in { 32, 44, 45, 46, 47, 58, 95 }

\* the flag one byte contributes, in the order of the match arms; -1 is the
\* unreachable!() arm
charset_arm(c) ==
    IF c >= 65 /\ c <= 90 THEN CHARSET_UPPER
    ELSE IF c >= 97 /\ c <= 122 THEN CHARSET_LOWER
    ELSE IF c >= 48 /\ c <= 57 THEN CHARSET_NUMERAL
    ELSE IF is_common_punct(c) THEN 0
    ELSE IF \/ (c >= 33 /\ c <= 47) \/ (c >= 58 /\ c <= 64)
            \/ (c >= 91 /\ c <= 96) \/ (c >= 123 /\ c <= 126)
    THEN CHARSET_RARE_PUNCT
    ELSE -1

\* detect_charset_flags: the OR of the flags of the bytes; panics at the
\* first byte no arm accepts
detect_charset_flags(s) ==
    LET bytes == as_bytes(s)
        arms == { charset_arm(bytes[i]) : i \in DOMAIN bytes }
        flag(f) == IF f \in arms THEN f ELSE 0
    IN  [panic |-> -1 \in arms,
         flags |-> flag(CHARSET_UPPER) + flag(CHARSET_LOWER) + flag(CHARSET_NUMERAL)
                       + flag(CHARSET_RARE_PUNCT)]

build_charset(flags) ==
    COMMON_PUNCT
        \o (IF BitAnd(flags, CHARSET_LOWER) # 0 THEN LOWER_CASE ELSE << >>)
        \o (IF BitAnd(flags, CHARSET_NUMERAL) # 0 THEN DIGITS ELSE << >>)
        \o (IF BitAnd(flags, CHARSET_UPPER) # 0 THEN UPPER_CASE ELSE << >>)
        \o (IF BitAnd(flags, CHARSET_RARE_PUNCT) # 0 THEN RARE_PUNCT ELSE << >>)

\* position of c in the charset, 0-based; -1 where expect() panics
compact_charset(c, charset) ==
    IF \E i \in DOMAIN charset : charset[i] = c
    THEN (CHOOSE i \in DOMAIN charset : charset[i] = c /\ \A j \in 1..(i - 1) : charset[j] # c)
             - 1
    ELSE -1

uncompact_charset(idx, charset) == charset[idx + 1]

-----------------------------------------------------------------------------
(* Ultrapacked ASCII strings: bit_packer.rs 210-248 and 374-404.  A write  *)
(* gives [panic, p]: whether it panicked, and the packer it left.          *)

\* ultra_packer::bits_per_bundle(max_value, size): the width of a bundle of
\* size digits, 64 - leading_zeros(max_value^size - 1)
bits_per_bundle(max_value, size) == WordBits(Dec(checked_pow(max_value, size).val))

RECURSIVE write_ascii_bundles(_, _, _, _)
\* the full bundles, then the remainder bundle; digits are the compacted
\* bytes not yet written
write_ascii_bundles(st, digits, kb, max_value) ==
    IF st.panic \/ digits = << >> THEN st
    ELSE LET size == IF Len(digits) >= kb.k THEN kb.k ELSE Len(digits)
             bits == IF size = kb.k THEN kb.b ELSE bits_per_bundle(max_value, size)
             group == SubSeq(digits, 1, size)
             e == encode(size, max_value, group)
             bad == (\E i \in 1..size : group[i] < 0) \/ ~e.ok
         IN  write_ascii_bundles(
                 [panic |-> bad,
                  p |-> IF bad THEN st.p ELSE write_bundle(st.p, bits, e.val)],
                 SubSeq(digits, size + 1, Len(digits)), kb, max_value)

write_ascii_ultrapacked_string(p, string, charset_flags) ==
    LET charset == build_charset(charset_flags)
        max_value == Len(charset)
        kb == find_optimal_bundle(max_value)
        bytes == as_bytes(string)
        bundles == Len(bytes) \div kb.k
        remainder == Len(bytes) % kb.k
        length == bundles * kb.k + remainder
        digits == [i \in DOMAIN bytes |-> compact_charset(bytes[i], charset)]
    IN  write_ascii_bundles(
            [panic |-> FALSE,
             p |-> write_int(write_bits(p, charset_flags, CHARSETS), Word(length))],
            SubSeq(digits, 1, Len(bytes)), kb, max_value)

\* BitPacker::write_ascii_string_charset, the ASCII writer finish calls:
\* the charset is detected, then the string is ultrapacked over it
write_ascii_string_charset(p, string) ==
    LET d == detect_charset_flags(string)
    IN  IF d.panic THEN [panic |-> TRUE, p |-> p]
        ELSE write_ascii_ultrapacked_string(p, string, d.flags)

\* Vec::with_capacity(length) with a length no buffer of the model reaches
\* (negative as i64, or beyond 2^31): the read does not return
Abort(u) == [ok |-> FALSE, val |-> 0, u |-> u, panic |-> TRUE]

Aborted(r) == "panic" \in DOMAIN r

RECURSIVE read_ascii_bundles_full_width(_, _, _, _)
\* the reader taking the remainder bundle at the width of a full bundle
read_ascii_bundles_full_width(st, left, kb, charset) ==
    IF ~st.ok \/ left = 0 THEN st
    ELSE LET size == IF left >= kb.k THEN kb.k ELSE left
             r == read_bundle(st.u, kb.b)
             decoded == decode(size, Len(charset), r.val)
             bytes == [i \in 1..size |-> uncompact_charset(decoded[i], charset)]
         IN  read_ascii_bundles_full_width(
                 IF r.ok THEN Some(st.val \o SubSeq(bytes, 1, size), r.u) ELSE NoData(r.u),
                 left - size, kb, charset)

RECURSIVE read_ascii_bundles(_, _, _, _)
\* st.val holds the bytes decoded so far, left the symbols still to read
read_ascii_bundles(st, left, kb, charset) ==
    IF ~st.ok \/ left = 0 THEN st
    ELSE LET size == IF left >= kb.k THEN kb.k ELSE left
             bits == IF size = kb.k THEN kb.b ELSE bits_per_bundle(Len(charset), size)
             r == read_bundle(st.u, bits)
             decoded == decode(size, Len(charset), r.val)
             bytes == [i \in 1..size |-> uncompact_charset(decoded[i], charset)]
         IN  read_ascii_bundles(
                 IF r.ok THEN Some(st.val \o SubSeq(bytes, 1, size), r.u) ELSE NoData(r.u),
                 left - size, kb, charset)

read_ascii_ultrapacked_string(u) ==
    LET flags == read_bits(u, CHARSETS)
        charset == build_charset(flags.val)
        kb == find_optimal_bundle(Len(charset))
        length == read_int(flags.u)
    IN  IF ~flags.ok THEN NoData(flags.u)
        ELSE IF ~length.ok THEN NoData(length.u)
        ELSE IF ~WordSmall(length.val) THEN Abort(length.u)
        ELSE LET r == read_ascii_bundles(Some(<< >>, length.u), WordNat(length.val),
                                         kb, charset)
             IN  IF r.ok THEN Some(from_utf8_lossy(r.val), r.u) ELSE r

\* BitUnpacker::read_ascii_string_ultrapacked, the ASCII reader read_bytes calls
read_ascii_string_ultrapacked(u) == read_ascii_ultrapacked_string(u)

-----------------------------------------------------------------------------
(* The static Huffman table and the Unicode strings: huffman.rs 133-248,   *)
(* bit_packer.rs 142-149, 261-272, 406-486.                                *)

MAX_CODE_LEN == 15

\* the code lengths HuffmanTable::from_counts gives the counts of
\* common_table, for the bytes 32..126 in order (every other byte has none)
HuffmanLengths ==
    << 3, 9, 9, 9, 9, 9, 9, 9, 9, 9, 9, 9, 9, 8, 8, 8, 9, 9, 9, 9, 9, 9, 9, 9,
       9, 9, 9, 9, 9, 9, 9, 9, 9, 9, 9, 9, 9, 9, 9, 9, 9, 9, 9, 9, 9, 9, 9, 9,
       9, 9, 9, 9, 9, 9, 9, 9, 9, 9, 9, 9, 9, 9, 9, 8, 9, 4, 6, 6, 5, 4, 6, 6,
       5, 4, 10, 8, 5, 6, 4, 4, 6, 10, 5, 4, 4, 5, 7, 6, 10, 6, 10, 9, 9, 9, 9 >>

code_length(c) == IF c >= 32 /\ c <= 126 THEN HuffmanLengths[c - 31] ELSE 0

RECURSIVE next_code(_)
\* build_codes: code = (code + bl_count[bits - 1]) << 1
next_code(bits) ==
    IF bits = 0 THEN 0
    ELSE (next_code(bits - 1)
             + Cardinality({ c \in 32..126 : bits > 1 /\ code_length(c) = bits - 1 })) * 2

\* build_codes: symbols of one length take consecutive codes in byte order
canonical_codes ==
    [c \in 0..255 |->
        next_code(code_length(c))
            + Cardinality({ d \in 32..(c - 1) : code_length(d) = code_length(c) })]

\* the code of one byte
canonical_code(c) == canonical_codes[c]

\* huffman::HUFFMAN_TABLE.get(&c): the static table of common_table's codes
HUFFMAN_TABLE(c) ==
    [found |-> code_length(c) > 0, code |-> canonical_code(c), len |-> code_length(c)]

\* huffman::HUFFMAN_MAX_LEN: the window width of the static decode table
HUFFMAN_MAX_LEN == MAX_CODE_LEN

\* huffman::HUFFMAN_DECODE[code]: build_table's (symbol, length) of a window
HUFFMAN_DECODE(code) ==
    LET hits == { c \in 32..126 :
                     code \div 2^(HUFFMAN_MAX_LEN - code_length(c)) = canonical_code(c) }
    IN  IF hits = {} THEN [character |-> 0, len |-> 0]
        ELSE LET c == CHOOSE c \in hits : TRUE
             IN  [character |-> c, len |-> code_length(c)]

write_bits_u16(p, bits, width) ==
    IF width <= 8 THEN write_bits(p, bits % 256, width)
    ELSE write_byte(write_bits(p, (bits \div 256) % 256, width - 8), bits % 256)

RECURSIVE write_unicode_bytes(_, _)
\* per byte: tag 0 and its Huffman code, or tag 1 and the raw byte
write_unicode_bytes(p, bytes) ==
    IF bytes = << >> THEN p
    ELSE LET c == Head(bytes)
             e == HUFFMAN_TABLE(c)
         IN  write_unicode_bytes(
                 IF e.found THEN write_bits_u16(write_bit(p, FALSE), e.code, e.len)
                 ELSE write_byte(write_bit(p, TRUE), c),
                 Tail(bytes))

write_unicode_huffman_string(p, string) ==
    LET bytes == as_bytes(string)
    IN  write_unicode_bytes(write_int(p, Word(Len(bytes))), bytes)

\* BitPacker::write_string, the writer finish calls when all_ascii is unset
write_string(p, string) == write_unicode_huffman_string(p, string)

RECURSIVE read_bits_u16_padded_loop(_, _)
\* st is [value, bits_read, u]; left counts the iterations still to run
read_bits_u16_padded_loop(st, left) ==
    IF left = 0 THEN st
    ELSE LET r == read_bit(st.u)
         IN  IF r.ok
             THEN read_bits_u16_padded_loop(
                      [value |-> (st.value * 2 + BoolU8(r.val)) % 65536,
                       bits_read |-> st.bits_read + 1, u |-> r.u], left - 1)
             ELSE [st EXCEPT !.value = (st.value * 2^left) % 65536]

read_bits_u16_padded(u, width) ==
    read_bits_u16_padded_loop([value |-> 0, bits_read |-> 0, u |-> u], width)

rewind_bits(u, bits) ==
    LET total_bits == u.byte_index * 8 + u.bit_offset
        new_total == IF total_bits >= bits THEN total_bits - bits ELSE 0
    IN  [u EXCEPT !.byte_index = new_total \div 8, !.bit_offset = new_total % 8]

read_huffman_byte(u) ==
    LET w == read_bits_u16_padded(u, HUFFMAN_MAX_LEN)
        e == HUFFMAN_DECODE(w.value)
    IN  IF w.bits_read = 0 THEN NoData(w.u)
        ELSE IF e.len = 0 \/ e.len > w.bits_read THEN NoData(w.u)
        ELSE Some(e.character, rewind_bits(w.u, w.bits_read - e.len))

RECURSIVE read_unicode_bytes(_, _)
\* st.val holds the bytes read so far, left the bytes still to read
read_unicode_bytes(st, left) ==
    IF ~st.ok \/ left = 0 THEN st
    ELSE LET is_escaped == read_bit(st.u)
             byte == IF is_escaped.val THEN read_byte(is_escaped.u)
                     ELSE read_huffman_byte(is_escaped.u)
         IN  read_unicode_bytes(
                 IF ~is_escaped.ok THEN NoData(is_escaped.u)
                 ELSE IF ~byte.ok THEN NoData(byte.u)
                 ELSE Some(Append(st.val, byte.val), byte.u),
                 left - 1)

read_unicode_huffman_string(u) ==
    LET length == read_int(u)
    IN  IF ~length.ok THEN NoData(length.u)
        ELSE IF ~WordSmall(length.val) THEN Abort(length.u)
        ELSE LET r == read_unicode_bytes(Some(<< >>, length.u), WordNat(length.val))
             IN  IF r.ok THEN Some(from_utf8_lossy(r.val), r.u) ELSE r

\* BitUnpacker::read_string, the reader read_bytes calls when all_ascii is unset
read_string(u) == read_unicode_huffman_string(u)

-----------------------------------------------------------------------------
(* ASCII Huffman strings and the adaptive writer: bit_packer.rs 196-208,   *)
(* 250-259, 423-436, 489-518.                                              *)

RECURSIVE write_ascii_bytes(_, _)
\* per byte: its Huffman code, or its low 7 bits when the table has none
write_ascii_bytes(p, bytes) ==
    IF bytes = << >> THEN p
    ELSE LET c == Head(bytes)
             e == HUFFMAN_TABLE(c)
         IN  write_ascii_bytes(
                 IF e.found THEN write_bits_u16(p, e.code, e.len)
                 ELSE write_bits(p, BitAnd(c, 127), 7),
                 Tail(bytes))

write_ascii_huffman_string(p, string) ==
    LET bytes == as_bytes(string)
    IN  write_ascii_bytes(write_int(p, Word(Len(bytes))), bytes)

RECURSIVE read_ascii_bytes(_, _)
\* st.val holds the bytes read so far, left the bytes still to read
read_ascii_bytes(st, left) ==
    IF ~st.ok \/ left = 0 THEN st
    ELSE LET byte == read_huffman_byte(st.u)
         IN  read_ascii_bytes(
                 IF byte.ok THEN Some(Append(st.val, byte.val), byte.u)
                 ELSE NoData(byte.u),
                 left - 1)

read_ascii_huffman_string(u) ==
    LET length == read_int(u)
    IN  IF ~length.ok THEN NoData(length.u)
        ELSE IF Negative(length.val) THEN NoData(length.u)
        ELSE IF ~WordSmall(length.val) THEN Abort(length.u)
        ELSE LET r == read_ascii_bytes(Some(<< >>, length.u), WordNat(length.val))
             IN  IF r.ok THEN Some(from_utf8_lossy(r.val), r.u) ELSE r

\* 1 bit selector + header + length prefix + content
estimate_ultrapack_bits(string, charset_flags) ==
    LET max_value == Len(build_charset(charset_flags))
        estimate(kb, len) ==
            1 + CHARSETS + int_encoded_bits(Word(len)) + (len \div kb.k) * kb.b
              + (IF len % kb.k > 0 THEN bits_per_bundle(max_value, len % kb.k) ELSE 0)
    IN  estimate(find_optimal_bundle(max_value), Len(as_bytes(string)))

RECURSIVE huffman_code_bits(_)
\* the code length of each byte, 7 for a byte the table has no code for
huffman_code_bits(bytes) ==
    IF bytes = << >> THEN 0
    ELSE (IF HUFFMAN_TABLE(Head(bytes)).found THEN HUFFMAN_TABLE(Head(bytes)).len ELSE 7)
             + huffman_code_bits(Tail(bytes))

\* 1 bit selector + length prefix + huffman codes
estimate_huffman_bits(string) ==
    LET bytes == as_bytes(string)
    IN  1 + int_encoded_bits(Word(Len(bytes))) + huffman_code_bits(bytes)

\* the adaptive writer with its two branches behind the opposite selector bits
write_ascii_string_adaptive_swapped(p, string) ==
    LET d == detect_charset_flags(string)
    IN  IF d.panic THEN [panic |-> TRUE, p |-> p]
        ELSE IF estimate_huffman_bits(string) < estimate_ultrapack_bits(string, d.flags)
        THEN [panic |-> FALSE, p |-> write_ascii_huffman_string(write_bit(p, FALSE), string)]
        ELSE write_ascii_ultrapacked_string(write_bit(p, TRUE), string, d.flags)

\* the adaptive writer choosing the form whose estimate is larger
write_ascii_string_adaptive_larger(p, string) ==
    LET d == detect_charset_flags(string)
    IN  IF d.panic THEN [panic |-> TRUE, p |-> p]
        ELSE IF estimate_huffman_bits(string) > estimate_ultrapack_bits(string, d.flags)
        THEN [panic |-> FALSE, p |-> write_ascii_huffman_string(write_bit(p, TRUE), string)]
        ELSE write_ascii_ultrapacked_string(write_bit(p, FALSE), string, d.flags)

\* [panic, p]; the selector bit is 1 for Huffman, 0 for ultrapack
write_ascii_string_adaptive(p, string) ==
    LET d == detect_charset_flags(string)
    IN  IF d.panic THEN [panic |-> TRUE, p |-> p]
        ELSE IF estimate_huffman_bits(string) < estimate_ultrapack_bits(string, d.flags)
        THEN [panic |-> FALSE, p |-> write_ascii_huffman_string(write_bit(p, TRUE), string)]
        ELSE write_ascii_ultrapacked_string(write_bit(p, FALSE), string, d.flags)

\* the reader of an adaptive string: the selector bit, then the Huffman
\* string reader when it is 1 and the ultrapack string reader when it is 0
read_ascii_string_adaptive(u) ==
    LET selector == read_bit(u)
    IN  IF ~selector.ok THEN NoData(selector.u)
        ELSE IF selector.val THEN read_ascii_huffman_string(selector.u)
        ELSE read_ascii_ultrapacked_string(selector.u)

-----------------------------------------------------------------------------
(* ASCII strings as a machine: a text is drawn from a seed, written to the *)
(* packer as an ultrapacked or an adaptive string (back to back, so that   *)
(* the later ones start inside a byte), then read back in the same order.  *)

\* longest text written
MaxText == 24

\* strings written in one run
MaxStrings == 2

\* "/usr/local/bin/entry.sh"
EntryPath ==
    << 47, 117, 115, 114, 47, 108, 111, 99, 97, 108, 47, 98, 105, 110, 47,
    101, 110, 116, 114, 121, 46, 115, 104 >>

\* "the quick brown fox jumps over the lazy dog"
QuickFox ==
    << 116, 104, 101, 32, 113, 117, 105, 99, 107, 32, 98, 114, 111, 119, 110,
    32, 102, 111, 120, 32, 106, 117, 109, 112, 115, 32, 111, 118, 101, 114,
    32, 116, 104, 101, 32, 108, 97, 122, 121, 32, 100, 111, 103 >>

\* the texts are the prefixes of the endless repetition of a seed: the path
\* and the sentence above, " ,-./:_", "0123456789", "Zz" and "A1b~"
Seeds ==
    { EntryPath, QuickFox, COMMON_PUNCT, DIGITS, << 90, 122 >>, << 65, 49, 98, 126 >> }

Text == strings[1]

\* bits a packer holds
Written(p) == (Len(p.buffer) - 1) * 8 + p.bit_offset

InitText ==
    /\ integers = << >> /\ booleans = << >> /\ property_types = << >>
    /\ strings = << << >> >>
    /\ d_integers = << >> /\ d_strings = << >> /\ d_booleans = << >>
    /\ d_property_types = << >>
    /\ fields = << >>
    /\ oplog = << >> /\ nread = 0
    /\ unpacker = BitUnpacker_new(<< >>)
    /\ call = [op |-> "new"]
    /\ ret = [ok |-> TRUE, val |-> 0]
    /\ buffer = BitPacker_new(<< >>).buffer
    /\ bit_offset = BitPacker_new(<< >>).bit_offset
    /\ pc = "write"
    /\ \E seed \in Seeds : ultra = [pc |-> "none", seed |-> seed]

\* the caller's string grows by one character
PushChar ==
    /\ pc = "write" /\ oplog = << >> /\ Len(Text) < MaxText
    /\ strings' = << Append(Text, ultra.seed[(Len(Text) % Len(ultra.seed)) + 1]) >>
    /\ call' = [op |-> "push"]
    /\ UNCHANGED << integers, booleans, property_types, fields, deVars, buffer,
                    bit_offset, unpacker, bitVars, ultra, pc, ret >>

\* r is the [panic, p] a string writer gave
WriteString(name, r) ==
    /\ pc = "write" /\ Len(oplog) < MaxStrings
    /\ SetPacker(r.p)
    /\ Log(name, Text, Written(r.p) - PackerBits)
    /\ pc' = IF r.panic THEN "panic" ELSE "write"
    /\ call' = [op |-> name]
    /\ UNCHANGED << serVars, deVars, unpacker, nread, ultra, ret >>

WriteAsciiUltrapackedString ==
    WriteString("ascii_ultrapacked_string",
                write_ascii_ultrapacked_string(Packer, Text, detect_charset_flags(Text).flags))

WriteAsciiStringAdaptive ==
    WriteString("ascii_string_adaptive", write_ascii_string_adaptive(Packer, Text))

\* r is what a string reader gave
ReadString(name, r) ==
    /\ CanRead(name)
    /\ unpacker' = r.u
    /\ ret' = [ok |-> r.ok, val |-> r.val]
    /\ nread' = nread + 1
    /\ pc' = IF Aborted(r) THEN "panic" ELSE pc
    /\ call' = [op |-> name, from |-> Position(unpacker)]
    /\ UNCHANGED << serVars, deVars, buffer, bit_offset, oplog, ultra >>

ReadAsciiUltrapackedString ==
    ReadString("ascii_ultrapacked_string", read_ascii_ultrapacked_string(unpacker))

ReadAsciiStringAdaptive ==
    ReadString("ascii_string_adaptive", read_ascii_string_adaptive(unpacker))

NextText ==
    \/ PushChar
    \/ WriteAsciiUltrapackedString
    \/ WriteAsciiStringAdaptive
    \/ StartRead
    \/ ReadAsciiUltrapackedString
    \/ ReadAsciiStringAdaptive

SpecText == InitText /\ [][NextText]_vars

\* the narrowest width that holds every bundle of r digits below M: the w
\* with M^r - 1 < 2^w and, for w > 0, 2^(w-1) <= M^r - 1
TailWidth(M, r) ==
    LET top == Dec(checked_pow(M, r).val)
    IN  CHOOSE w \in 0..64 :
            /\ MaskWord(top, w) = top
            /\ w > 0 => MaskWord(top, w - 1) # top

\* the bits of an ultrapacked string of len symbols over an alphabet of M:
\* the flags, the length, the full bundles, and the tail of len mod k symbols
UltrapackedBits(M, len) ==
    LET kb == find_optimal_bundle(M)
    IN  CHARSETS + int_encoded_bits(Word(len)) + (len \div kb.k) * kb.b
            + (IF len % kb.k > 0 THEN TailWidth(M, len % kb.k) ELSE 0)

\* C11: a printable-ASCII string written by write_ascii_ultrapacked_string
\* with its detected flags is returned by read_ascii_ultrapacked_string,
\* whatever its length; the writer emits the flags, the length, the full
\* bundles and, for r = len mod k > 0, one bundle of exactly
\* 64 - leading_zeros(M^r - 1) bits and nothing that tells r; the reader
\* consumes exactly the bits written.
C11_UltrapackedStringRoundTrip ==
    /\ pc = "write" /\ call.op = "ascii_ultrapacked_string" =>
          oplog[Len(oplog)].w =
              UltrapackedBits(Len(build_charset(detect_charset_flags(Text).flags)), Len(Text))
    /\ pc = "read" /\ call.op = "ascii_ultrapacked_string" =>
          /\ ret.ok /\ ret.val = Text
          /\ Position(unpacker) - call.from = oplog[nread].w
    /\ pc # "panic"

\* the 23 characters of the path, one bundle of 12 and a tail of 11, read
\* back from a position inside a byte
C11_Witness ==
    /\ pc = "read" /\ call.op = "ascii_ultrapacked_string" /\ nread = 2
    /\ Text = EntryPath /\ ret.ok /\ ret.val = EntryPath
    /\ call.from % 8 # 0
    /\ Len(Text) % find_optimal_bundle(33).k = 11

\* the bytes of a sequence
Range(seq) == { seq[i] : i \in DOMAIN seq }

\* a string drawn only from common punctuation and lowercase letters, with
\* a lowercase letter in it
PunctAndLower(s) ==
    /\ Range(as_bytes(s)) \subseteq Range(COMMON_PUNCT) \cup Range(LOWER_CASE)
    /\ Range(as_bytes(s)) \cap Range(LOWER_CASE) # {}

\* for a text over punctuation and lowercase: only the LOWER flag, an
\* alphabet of 33, bundles of k symbols in b bits, and such bundles written
LowerPathBundle(k, b) ==
    LET d == detect_charset_flags(Text)
        M == Len(build_charset(d.flags))
        len == Len(Text)
    IN  /\ ~d.panic
        /\ d.flags = CHARSET_LOWER
        /\ M = 33
        /\ find_optimal_bundle(M) = [k |-> k, b |-> b]
        /\ pc = "write" /\ call.op = "ascii_ultrapacked_string" =>
              oplog[Len(oplog)].w =
                  CHARSETS + int_encoded_bits(Word(len)) + (len \div k) * b
                      + (IF len % k > 0 THEN TailWidth(33, len % k) ELSE 0)

\* C18: for a string drawn only from common punctuation and lowercase
\* letters detect_charset_flags selects only the LOWER flag, the alphabet
\* has size 33 and find_optimal_bundle(33) is (3, 16), so every 3 bytes pack
\* into 16 bits
C18_LowerPathBundle == PunctAndLower(Text) => LowerPathBundle(3, 16)

\* C18 amended: for such a string the flag is LOWER alone, the alphabet has
\* size 33 and find_optimal_bundle(33) is (12, 61), so every 12 bytes pack
\* into 61 bits
C18_LowerPathBundleAmended == PunctAndLower(Text) => LowerPathBundle(12, 61)

\* C18 witness: "/usr/local/bin/entry.sh" was written as one bundle of 61
\* bits and a tail of 11 symbols
C18_Witness ==
    /\ Text = EntryPath
    /\ pc = "write" /\ call.op = "ascii_ultrapacked_string"
    /\ Len(oplog) = 1
    /\ oplog[1].w = 4 + 9 + 61 + 56

\* the bit of `buffer` at a bit position
BitAt(pos) ==
    read_bit([buffer |-> buffer, byte_index |-> pos \div 8, bit_offset |-> pos % 8]).val

\* whether the estimates make the adaptive writer pick the Huffman form
HuffmanIsSmaller ==
    estimate_huffman_bits(Text) < estimate_ultrapack_bits(Text, detect_charset_flags(Text).flags)

\* a form reader started right behind the selector bit of the last string read
BehindSelector(r) == r.ok /\ r.val = Text /\ r.u = unpacker

\* C12: for every string written by write_ascii_string_adaptive the selector
\* bit is 1 exactly when the Huffman form was chosen and 0 when the ultrapack
\* form was; the reader that takes the selector bit and then applies the
\* Huffman string reader on 1 and the ultrapack string reader on 0 returns
\* the original string and consumes exactly the bits written.
C12_SelectorRoutes ==
    /\ pc = "read" /\ call.op = "ascii_string_adaptive" =>
          /\ ret.ok /\ ret.val = Text
          /\ Position(unpacker) - call.from = oplog[nread].w
          /\ BitAt(call.from) = HuffmanIsSmaller
          /\ LET behind == [unpacker EXCEPT !.byte_index = (call.from + 1) \div 8,
                                            !.bit_offset = (call.from + 1) % 8]
             IN  IF BitAt(call.from)
                 THEN BehindSelector(read_ascii_huffman_string(behind))
                 ELSE BehindSelector(read_ascii_ultrapacked_string(behind))
    /\ pc # "panic"

\* "the quick brown fox ", for which the Huffman form is the smaller one,
\* read back as the second string from a position inside a byte
C12_Witness ==
    /\ pc = "read" /\ call.op = "ascii_string_adaptive" /\ nread = 2
    /\ Text = SubSeq(QuickFox, 1, 20)
    /\ BitAt(call.from) /\ call.from % 8 # 0
    /\ ret.ok /\ ret.val = Text

Min(a, b) == IF a < b THEN a ELSE b

\* C13: the bits write_ascii_string_adaptive appends for a printable-ASCII
\* string, selector bit included, are at most 1 + min(estimate_ultrapack_bits,
\* estimate_huffman_bits); they are those of the form whose estimate is the
\* smaller, and each estimate is exact: it is the selector bit plus the bits
\* its form emits.
C13_AdaptiveSize ==
    pc = "write" /\ call.op = "ascii_string_adaptive" =>
        LET flags == detect_charset_flags(Text).flags
            size(ultrapack, huffman, appended) ==
                /\ appended <= 1 + Min(ultrapack, huffman)
                /\ appended = Min(ultrapack, huffman)
                /\ ultrapack = 1 + Written(write_ascii_ultrapacked_string(
                                               BitPacker_new(<< >>), Text, flags).p)
                /\ huffman = 1 + Written(write_ascii_huffman_string(BitPacker_new(<< >>), Text))
        IN  size(estimate_ultrapack_bits(Text, flags), estimate_huffman_bits(Text),
                 oplog[Len(oplog)].w)

\* the path written as the second string: its estimates differ and the
\* smaller one is what was appended
C13_Witness ==
    /\ pc = "write" /\ call.op = "ascii_string_adaptive" /\ Len(oplog) = 2
    /\ Text = EntryPath
    /\ estimate_huffman_bits(Text) # estimate_ultrapack_bits(Text, CHARSET_LOWER)
    /\ oplog[2].w = Min(estimate_huffman_bits(Text), estimate_ultrapack_bits(Text, CHARSET_LOWER))

-----------------------------------------------------------------------------
(* huffman.rs: HuffmanTable::from_counts.  counts, lengths and codes are   *)
(* functions on the bytes 0..255.  A HuffNode is [freq, symbol, kids],     *)
(* symbol -1 for None, kids the pair << left, right >> or empty.           *)

Bytes == 0..255

Leaf(freq, symbol) == [freq |-> freq, symbol |-> symbol, kids |-> << >>]

\* a <= b in the Ord of HuffNode, which reverses the order of freq
node_le(a, b) == a.freq >= b.freq

RECURSIVE sift_up(_, _, _, _)
\* BinaryHeap::sift_up: the hole at pos (0-based) climbs while its element
\* is greater than the parent
sift_up(data, element, start, pos) ==
    IF pos > start /\ ~node_le(element, data[(pos - 1) \div 2 + 1])
    THEN sift_up([data EXCEPT ![pos + 1] = data[(pos - 1) \div 2 + 1]], element, start,
                 (pos - 1) \div 2)
    ELSE [data EXCEPT ![pos + 1] = element]

RECURSIVE sift_down_to_bottom(_, _, _)
\* BinaryHeap::sift_down_to_bottom: the hole sinks to a leaf along the
\* greater children, then its element climbs back
sift_down_to_bottom(data, element, pos) ==
    LET end == Len(data)
        child == 2 * pos + 1
    IN  IF end >= 2 /\ child <= end - 2
        THEN LET greater == IF node_le(data[child + 1], data[child + 2])
                            THEN child + 1 ELSE child
             IN  sift_down_to_bottom([data EXCEPT ![pos + 1] = data[greater + 1]],
                                     element, greater)
        ELSE IF child = end - 1
        THEN sift_up([data EXCEPT ![pos + 1] = data[child + 1]], element, 0, child)
        ELSE sift_up(data, element, 0, pos)

\* heap.push(node)
heap_push(data, node) == sift_up(Append(data, node), node, 0, Len(data))

\* heap.pop().unwrap(): [node, data]
heap_pop(data) ==
    LET last == data[Len(data)]
        rest == SubSeq(data, 1, Len(data) - 1)
    IN  IF rest = << >> THEN [node |-> last, data |-> rest]
        ELSE [node |-> rest[1], data |-> sift_down_to_bottom(rest, last, 0)]

RECURSIVE push_leaves(_, _, _, _)
\* for (symbol, &freq) in counts.iter().enumerate() { if freq > 0 { push } }:
\* n turns from the i-th counted byte, run as two halves
push_leaves(data, symbols, i, n) ==
    IF n = 0 \/ Len(data) = Len(symbols) THEN data
    ELSE IF n = 1 THEN heap_push(data, symbols[i])
    ELSE push_leaves(push_leaves(data, symbols, i, n \div 2), symbols, i + n \div 2,
                     n - n \div 2)

\* the leaves of the bytes with a count, in byte order
counted_leaves(counts) ==
    LET counted == { symbol \in Bytes : counts[symbol] > 0 }
    IN  [i \in 1..Cardinality(counted) |->
            LET symbol == CHOOSE x \in counted :
                              Cardinality({ y \in counted : y < x }) = i - 1
            IN  Leaf(counts[symbol], symbol)]

RECURSIVE merge_nodes(_, _)
\* while heap.len() > 1: the two least frequent nodes become one; at most n
\* turns, run as two halves
merge_nodes(data, n) ==
    IF n = 0 \/ Len(data) <= 1 THEN data
    ELSE IF n = 1
    THEN LET left == heap_pop(data)
             merged(right) ==
                 heap_push(right.data,
                           [freq |-> left.node.freq + right.node.freq, symbol |-> -1,
                            kids |-> << left.node, right.node >>])
         IN  merged(heap_pop(left.data))
    ELSE merge_nodes(merge_nodes(data, n \div 2), n - n \div 2)

RECURSIVE traverse(_, _, _)
\* the lengths with the depth of every leaf under node set, at most
\* MAX_CODE_LEN; the lengths so far are complete before the node is entered
traverse(node, depth, lengths) ==
    IF DOMAIN lengths # Bytes THEN lengths
    ELSE IF node.symbol # -1
    THEN [lengths EXCEPT ![node.symbol] = IF depth < MAX_CODE_LEN THEN depth ELSE MAX_CODE_LEN]
    ELSE traverse(node.kids[2], depth + 1, traverse(node.kids[1], depth + 1, lengths))

RECURSIVE kraft_sum(_, _)
\* the sum of 1 << (MAX_CODE_LEN - len) over the symbols with a length of
\* 1..len
kraft_sum(lengths, len) ==
    IF len = 0 THEN 0
    ELSE Cardinality({ symbol \in Bytes : lengths[symbol] = len }) * 2^(MAX_CODE_LEN - len)
             + kraft_sum(lengths, len - 1)

\* for len in lengths.iter_mut(): a length above MAX_CODE_LEN is cut to it
clamp_lengths(lengths) ==
    [symbol \in Bytes |-> IF lengths[symbol] > MAX_CODE_LEN THEN MAX_CODE_LEN
                          ELSE lengths[symbol]]

RECURSIVE raise_shortest(_)
\* the loop of limit_lengths: while the Kraft sum exceeds 1, the first of
\* the shortest codes grows by one bit.  No length reaches MAX_CODE_LEN + 1:
\* the shortest code is that long only when every code is, and 256 such
\* codes have a Kraft sum below 1
raise_shortest(lengths) ==
    LET coded == { symbol \in Bytes : lengths[symbol] > 0 }
        min_idx == CHOOSE x \in coded :
                       \A y \in coded : \/ lengths[x] < lengths[y]
                                        \/ lengths[x] = lengths[y] /\ x <= y
    IN  IF kraft_sum(lengths, MAX_CODE_LEN) <= 2^MAX_CODE_LEN THEN lengths
        ELSE raise_shortest([lengths EXCEPT ![min_idx] = lengths[min_idx] + 1])

\* limit_lengths without its loop
limit_lengths_no_loop(lengths) == clamp_lengths(lengths)

limit_lengths(lengths) == raise_shortest(clamp_lengths(lengths))

RECURSIVE first_code(_, _)
\* next_code[bits] before any code is handed out:
\* code = (code + bl_count[bits - 1]) << 1, bl_count[0] being 0
first_code(lengths, bits) ==
    IF bits = 0 THEN 0
    ELSE (first_code(lengths, bits - 1)
             + Cardinality({ symbol \in Bytes : bits > 1 /\ lengths[symbol] = bits - 1 })) * 2

\* build_codes without the shift: next_code[bits] = code + bl_count[bits - 1]
build_codes_unshifted(lengths) ==
    [symbol \in Bytes |->
        IF lengths[symbol] > 0 /\ lengths[symbol] <= MAX_CODE_LEN
        THEN first_code(lengths, lengths[symbol]) \div 2
                 + Cardinality({ d \in 0..(symbol - 1) : lengths[d] = lengths[symbol] })
        ELSE 0]

\* build_codes: the symbols of one length take consecutive codes in byte order
build_codes(lengths) ==
    [symbol \in Bytes |->
        IF lengths[symbol] > 0 /\ lengths[symbol] <= MAX_CODE_LEN
        THEN first_code(lengths, lengths[symbol])
                 + Cardinality({ d \in 0..(symbol - 1) : lengths[d] = lengths[symbol] })
        ELSE 0]

\* the windows base .. base + count - 1 build_table fills for a symbol
window_base(t, symbol) == t.codes[symbol] * 2^(MAX_CODE_LEN - t.lengths[symbol])

window_count(t, symbol) == 2^(MAX_CODE_LEN - t.lengths[symbol])

\* build_table: a table is [codes, lengths, panic]; decode_table and
\* decode_lengths are kept as the windows of the symbols, see decode_entry.
\* The fill panics when a window lies beyond the 2^MAX_CODE_LEN entries
build_table(codes, lengths) ==
    LET t == [codes |-> codes, lengths |-> lengths]
    IN  [codes |-> codes, lengths |-> lengths,
         panic |-> \E symbol \in Bytes :
                      /\ lengths[symbol] > 0 /\ lengths[symbol] <= MAX_CODE_LEN
                      /\ window_base(t, symbol) + window_count(t, symbol) > 2^MAX_CODE_LEN]

\* (decode_table[bits], decode_lengths[bits]): the last symbol, in byte order,
\* whose windows include bits; (0, 0) where no symbol wrote
decode_entry(t, bits) ==
    LET hits == { symbol \in Bytes :
                     /\ t.lengths[symbol] > 0 /\ t.lengths[symbol] <= MAX_CODE_LEN
                     /\ bits >= window_base(t, symbol)
                     /\ bits < window_base(t, symbol) + window_count(t, symbol) }
    IN  IF hits = {} THEN [symbol |-> 0, len |-> 0]
        ELSE LET last == CHOOSE x \in hits : \A y \in hits : y <= x
             IN  [symbol |-> last, len |-> t.lengths[last]]

NoLengths == [symbol \in Bytes |-> 0]

from_counts(counts) ==
    LET leaves == counted_leaves(counts)
        heap == push_leaves(<< >>, leaves, 1, Len(leaves))
        table(lengths) == build_table(build_codes(lengths), lengths)
    IN  IF heap = << >> THEN build_table(NoLengths, NoLengths)
        ELSE IF Len(heap) = 1
        THEN build_table(NoLengths, [NoLengths EXCEPT ![heap[1].symbol] = 1])
        ELSE table(limit_lengths(traverse(merge_nodes(heap, Len(heap))[1], 0, NoLengths)))

\* the counts of HuffmanTable::common_table
common_counts ==
    LET named == 32 :> 18000 @@ 101 :> 10000 @@ 116 :> 7000 @@ 97 :> 6500 @@
                 111 :> 6000 @@ 105 :> 5500 @@ 110 :> 5500 @@ 115 :> 5000 @@
                 104 :> 4800 @@ 114 :> 4700 @@ 100 :> 3500 @@ 108 :> 3500 @@
                 99 :> 2500 @@ 117 :> 2500 @@ 109 :> 2000 @@ 119 :> 2000 @@
                 102 :> 1800 @@ 103 :> 1600 @@ 121 :> 1600 @@ 112 :> 1500 @@
                 98 :> 1200 @@ 118 :> 800 @@ 107 :> 600 @@ 47 :> 400 @@
                 45 :> 400 @@ 95 :> 400 @@ 46 :> 400 @@ 91 :> 300 @@
                 93 :> 300 @@ 123 :> 300 @@ 125 :> 300 @@ 40 :> 300 @@
                 41 :> 300 @@ 92 :> 300 @@ 106 :> 100 @@ 120 :> 100 @@
                 113 :> 80 @@ 122 :> 60
    IN  [symbol \in Bytes |->
            IF symbol \in DOMAIN named THEN named[symbol]
            ELSE IF symbol >= 32 /\ symbol < 127 THEN 200
            ELSE 0]

common_table == from_counts(common_counts)

\* table.get_code(symbol): (code, len)
get_code(t, symbol) == [code |-> t.codes[symbol], len |-> t.lengths[symbol]]

RECURSIVE write_bits_u32(_, _, _)
\* BitPacker::write_bits_u32(bits, width): the low width bits, the highest
\* first
write_bits_u32(p, bits, width) ==
    IF width <= 8 THEN write_bits(p, bits % 256, width)
    ELSE write_byte(write_bits_u32(p, bits \div 256, width - 8), bits % 256)

\* BitPacker::finish(): the bytes written
BitPacker_finish(p) == p.buffer

\* BitUnpacker::peek_bits(width): the next width bits as a number, zeros
\* standing in for the bits beyond the end; the reader does not move
peek_bits(u, width) == read_bits_u16_padded(u, width).value

\* BitUnpacker::skip_bits(len): the reader moves len bits on
skip_bits(u, len) ==
    [u EXCEPT !.byte_index = (Position(u) + len) \div 8,
              !.bit_offset = (Position(u) + len) % 8]

RECURSIVE compress_loop(_, _, _, _, _)
\* for &byte in data: n turns from data[i], run as two halves
compress_loop(p, data, t, i, n) ==
    IF n = 0 \/ p.bit_offset > 8 THEN p
    ELSE IF n = 1 THEN write_bits_u32(p, get_code(t, data[i]).code, get_code(t, data[i]).len)
    ELSE compress_loop(compress_loop(p, data, t, i, n \div 2), data, t, i + n \div 2,
                       n - n \div 2)

\* compress: the packer as finish() finds it
compress(data, t) == compress_loop(BitPacker_new(<< >>), data, t, 1, Len(data))

RECURSIVE decompress_loop(_, _, _)
\* for _ in 0..length: n turns, run as two halves; st is [u, result]
decompress_loop(st, t, n) ==
    IF n = 0 \/ st.u.bit_offset > 8 THEN st
    ELSE IF n = 1
    THEN LET step(e) == [u |-> skip_bits(st.u, e.len), result |-> Append(st.result, e.symbol)]
         IN  step(decode_entry(t, peek_bits(st.u, MAX_CODE_LEN)))
    ELSE decompress_loop(decompress_loop(st, t, n \div 2), t, n - n \div 2)

\* decompress skipping a whole window after every symbol
decompress_skip_window(compressed, length, t) ==
    LET u == BitUnpacker_new(compressed)
    IN  [u |-> skip_bits(u, MAX_CODE_LEN * length),
         result |-> [i \in 1..length |->
                        decode_entry(t, peek_bits(skip_bits(u, MAX_CODE_LEN * (i - 1)),
                                                  MAX_CODE_LEN)).symbol]]

\* decompress: [u, result], the reader at the end and the bytes decoded
decompress(compressed, length, t) ==
    decompress_loop([u |-> BitUnpacker_new(compressed), result |-> << >>], t, length)

-----------------------------------------------------------------------------
(* Huffman tables as a machine: counts are given to bytes one at a time,   *)
(* from_counts (or common_table) builds the table, compress packs a text   *)
(* of counted bytes and decompress unpacks it.  `ultra` holds the counts    *)
(* and the table, `fields` the text, `buffer` the compressed bytes and     *)
(* `ret` the bytes decompress gave.                                        *)

\* bytes given a count by the caller
MaxSymbols == 18

\* the byte of the first symbol, b'a'
FirstSymbol == 97

\* how the count of the i-th symbol (from 0) is chosen: all equal, powers of
\* two (the deepest tree), Fibonacci numbers (deep, with ties), and the
\* counts of test_repetitive_data
Profiles == { "uniform", "doubling", "fibonacci", "repetitive" }

RECURSIVE Fibonacci(_)
Fibonacci(i) == IF i < 2 THEN 1 ELSE Fibonacci(i - 1) + Fibonacci(i - 2)

ProfileCount(profile, i) ==
    CASE profile = "uniform" -> 1
      [] profile = "doubling" -> 2^i
      [] profile = "fibonacci" -> Fibonacci(i)
      [] profile = "repetitive" -> << 12, 6, 4, 4, 6 >>[(i % 5) + 1]

\* texts of counted bytes: none, every counted byte once in byte order, the
\* same backwards, the first counted byte three times, and the sentence of
\* test_roundtrip_table
Texts == { "empty", "each", "reverse", "first", "sentence" }

Counted(counts) == { symbol \in Bytes : counts[symbol] > 0 }

TextOf(text, counts) ==
    LET each == [i \in 1..Cardinality(Counted(counts)) |-> counted_leaves(counts)[i].symbol]
    IN  CASE text = "empty" -> << >>
          [] text = "each" -> each
          [] text = "reverse" -> [i \in 1..Len(each) |-> each[Len(each) + 1 - i]]
          [] text = "first" -> IF each = << >> THEN << >> ELSE << each[1], each[1], each[1] >>
          [] text = "sentence" -> QuickFox

InitHuffman ==
    /\ integers = << >> /\ strings = << >> /\ booleans = << >> /\ property_types = << >>
    /\ d_integers = << >> /\ d_strings = << >> /\ d_booleans = << >>
    /\ d_property_types = << >>
    /\ fields = << >>
    /\ oplog = << >> /\ nread = 0
    /\ unpacker = BitUnpacker_new(<< >>)
    /\ call = [op |-> "new"]
    /\ ret = [ok |-> TRUE, val |-> 0]
    /\ buffer = << >> /\ bit_offset = 0
    /\ pc = "counts"
    /\ \E profile \in Profiles \cup { "common" } :
          ultra = [pc |-> "none", profile |-> profile, counts |-> NoLengths]

\* counts[symbol] = ...: the next byte gets its count
AddSymbol ==
    LET n == Cardinality(Counted(ultra.counts))
    IN  /\ pc = "counts" /\ ultra.profile \in Profiles /\ n < MaxSymbols
        /\ ultra' = [ultra EXCEPT
                        !.counts[FirstSymbol + n] = ProfileCount(ultra.profile, n)]
        /\ call' = [op |-> "count"]
        /\ UNCHANGED << serVars, deVars, buffer, bit_offset, unpacker, bitVars, pc, ret >>

\* the table is built: t is what the constructor gave
BuildTable(name, counts, t) ==
    /\ pc = "counts"
    /\ ultra' = [pc |-> "none", profile |-> ultra.profile, counts |-> counts,
                 codes |-> t.codes, lengths |-> t.lengths]
    /\ pc' = IF t.panic THEN "panic" ELSE "table"
    /\ call' = [op |-> name]
    /\ UNCHANGED << serVars, deVars, buffer, bit_offset, unpacker, bitVars, ret >>

FromCounts ==
    /\ ultra.profile \in Profiles
    /\ BuildTable("from_counts", ultra.counts, from_counts(ultra.counts))

CommonTable ==
    /\ ultra.profile = "common"
    /\ BuildTable("common_table", common_counts, common_table)

\* the table of the machine
Table == [codes |-> ultra.codes, lengths |-> ultra.lengths]

\* compress(data, &table) for a text of counted bytes
Compress(text) ==
    LET data == TextOf(text, ultra.counts)
    IN  /\ pc = "table"
        /\ \A i \in DOMAIN data : ultra.counts[data[i]] > 0
        /\ SetPacker(compress(data, Table))
        /\ fields' = data
        /\ pc' = "compressed"
        /\ call' = [op |-> "compress", text |-> text]
        /\ UNCHANGED << integers, strings, booleans, property_types, deVars, unpacker,
                        bitVars, ultra, ret >>

\* decompress(&compressed, data.len(), &table)
Decompress ==
    LET r == decompress(BitPacker_finish(Packer), Len(fields), Table)
    IN  /\ pc = "compressed"
        /\ unpacker' = r.u
        /\ ret' = [ok |-> TRUE, val |-> r.result]
        /\ pc' = "decompressed"
        /\ call' = [op |-> "decompress"]
        /\ UNCHANGED << serVars, deVars, buffer, bit_offset, bitVars, ultra >>

NextHuffman ==
    \/ AddSymbol
    \/ FromCounts
    \/ CommonTable
    \/ \E text \in Texts : Compress(text)
    \/ Decompress

SpecHuffman == InitHuffman /\ [][NextHuffman]_vars

\* a table has been built
HasTable == pc \in { "table", "compressed", "decompressed" }

\* symbols with an assigned length
Coded == { symbol \in Bytes : ultra.lengths[symbol] > 0 }

RECURSIVE KraftUnits(_)
\* the Kraft sum in units of 2^-16, length by length from len down to 1
KraftUnits(len) ==
    IF len = 0 THEN 0
    ELSE Cardinality({ symbol \in Coded : ultra.lengths[symbol] = len }) * 2^(16 - len)
         + KraftUnits(len - 1)

\* C15: in every table from_counts or common_table built, the Kraft sum of
\* 2^(-len) over the symbols with an assigned length is at most 1 and no
\* assigned length exceeds 12 bits
C15_KraftAndMaxLen ==
    HasTable =>
        /\ \A symbol \in Coded : ultra.lengths[symbol] <= 12
        /\ KraftUnits(12) <= 2^16

\* C16: in every table from_counts built no symbol's code is a prefix of
\* another symbol's code, and no two symbols' windows of the decode table
\* share an entry
C16_PrefixFree ==
    HasTable =>
        \A a, b \in Coded :
            a # b =>
                /\ ultra.lengths[a] <= ultra.lengths[b] =>
                       ultra.codes[b] \div 2^(ultra.lengths[b] - ultra.lengths[a])
                           # ultra.codes[a]
                /\ \/ window_base(Table, a) + window_count(Table, a) <= window_base(Table, b)
                   \/ window_base(Table, b) + window_count(Table, b) <= window_base(Table, a)

\* C16 witness: eighteen symbols with doubling counts, whose tree is deeper
\* than MAX_CODE_LEN so the lengths were limited, got their table
C16_Witness ==
    /\ HasTable
    /\ ultra.profile = "doubling"
    /\ Cardinality(Coded) = 18
    /\ \E symbol \in Coded : ultra.lengths[symbol] = MAX_CODE_LEN

\* C17: decompress(compress(d, table), len(d), table) = d for every text d
\* of bytes with a non-zero count
C17_HuffmanRoundTrip ==
    pc = "decompressed" => ret.val = fields

\* C17 witness: the sentence of test_roundtrip_table went through
\* common_table and came back in fewer bits than it has
C17_Witness ==
    /\ pc = "decompressed"
    /\ ultra.profile = "common"
    /\ call.op = "decompress"
    /\ fields = QuickFox
    /\ ret.val = QuickFox
    /\ PackerBits < 8 * Len(QuickFox)

-----------------------------------------------------------------------------
(* Property types: serializer.rs 53-80, bit_packer.rs 274-277, 455-458.    *)

PropertyTypes == << "String", "Bool", "Integer", "Array" >>

\* PropertyType::to_bits: (bits, len)
to_bits(tag) ==
    [bits |-> (CHOOSE i \in 1..4 : PropertyTypes[i] = tag) - 1, len |-> 2]

\* PropertyType::from_bits: [ok, val]
from_bits(bits) ==
    IF bits \in 0..3 THEN [ok |-> TRUE, val |-> PropertyTypes[bits + 1]]
    ELSE [ok |-> FALSE, val |-> "String"]

write_property_type(p, tag) == write_bits(p, to_bits(tag).bits, to_bits(tag).len)

read_property_type(u) ==
    LET bits == read_bits(u, 2)
        tag == from_bits(bits.val)
    IN  IF bits.ok /\ tag.ok THEN Some(tag.val, bits.u) ELSE NoData(bits.u)

-----------------------------------------------------------------------------
(* Serializer: serializer.rs 82-238.  A PropertyValue is the record        *)
(* [tag, v]; a Serializer is the record of its four columns.               *)

Integer(int) == [tag |-> "Integer", v |-> int]
Bool(bool) == [tag |-> "Bool", v |-> bool]
String(string) == [tag |-> "String", v |-> string]
Array(values) == [tag |-> "Array", v |-> values]

Serializer_new ==
    [integers |-> << >>, strings |-> << >>, booleans |-> << >>, property_types |-> << >>]

Serializer_write_int(s, value) == [s EXCEPT !.integers = Append(@, value)]
Serializer_write_string(s, value) == [s EXCEPT !.strings = Append(@, value)]
Serializer_write_bool(s, value) == [s EXCEPT !.booleans = Append(@, value)]
Serializer_write_property_type(s, tag) == [s EXCEPT !.property_types = Append(@, tag)]

RECURSIVE write_value(_, _)
RECURSIVE write_values(_, _, _)

\* for value in array { self.write_value(value) }, from the i-th value on
write_values(s, array, i) ==
    IF i > Len(array) THEN s
    ELSE write_values(write_value(s, array[i]), array, i + 1)

\* Serializer::write_array: the length goes to the integer column
write_array(s, array) ==
    write_values(Serializer_write_int(s, Word(Len(array))), array, 1)

\* write_value that records the tag after the value
write_value_tag_last(s, value) ==
    Serializer_write_property_type(
        CASE value.tag = "Bool" -> Serializer_write_bool(s, value.v)
          [] value.tag = "String" -> Serializer_write_string(s, value.v)
          [] value.tag = "Integer" -> Serializer_write_int(s, value.v)
          [] value.tag = "Array" -> write_array(s, value.v),
        value.tag)

write_value(s, value) ==
    LET t == Serializer_write_property_type(s, value.tag)
    IN  CASE value.tag = "Bool" -> Serializer_write_bool(t, value.v)
          [] value.tag = "String" -> Serializer_write_string(t, value.v)
          [] value.tag = "Integer" -> Serializer_write_int(t, value.v)
          [] value.tag = "Array" -> write_array(t, value.v)

\* Serializer::all_32_127: any string with any char in 32..=127
all_32_127(s) ==
    \E i \in DOMAIN s.strings :
        \E j \in DOMAIN s.strings[i] : s.strings[i][j] >= 32 /\ s.strings[i][j] <= 127

\* the columns, in the order finish writes them and read_bytes reads them
Columns == << "integers", "booleans", "strings", "property_types" >>

RECURSIVE write_columns(_, _, _, _, _)
\* the four `for x in &self.column` loops of finish, from the i-th element
\* of column col on; st is [panic, p]
write_columns(all_ascii, st, s, col, i) ==
    IF st.panic \/ col > Len(Columns) THEN st
    ELSE IF i > Len(s[Columns[col]]) THEN write_columns(all_ascii, st, s, col + 1, 1)
    ELSE LET x == s[Columns[col]][i]
         IN  write_columns(
                 all_ascii,
                 CASE col = 1 -> [panic |-> FALSE, p |-> write_int(st.p, x)]
                   [] col = 2 -> [panic |-> FALSE, p |-> write_bit(st.p, x)]
                   [] col = 3 -> IF all_ascii THEN write_ascii_string_charset(st.p, x)
                                 ELSE [panic |-> FALSE, p |-> write_string(st.p, x)]
                   [] col = 4 -> [panic |-> FALSE, p |-> write_property_type(st.p, x)],
                 s, col, i + 1)

\* the header and the columns of finish, with the counts in the order given
finish_with(s, buf, version, first, second) ==
    LET all_ascii == all_32_127(s)
        header == write_int(
                      write_int(
                          write_bit(
                              write_int(
                                  write_int(write_byte(BitPacker_new(buf), version),
                                            Word(Len(first))),
                                  Word(Len(second))),
                              all_ascii),
                          Word(Len(s.strings))),
                      Word(Len(s.property_types)))
    IN  write_columns(all_ascii, [panic |-> FALSE, p |-> header], s, 1, 1)

\* finish that records the boolean count ahead of the integer count
finish_bools_first(s, buf, version) == finish_with(s, buf, version, s.booleans, s.integers)

\* Serializer::finish: [panic, p], the packer holding the caller's buffer
finish(s, buf, version) == finish_with(s, buf, version, s.integers, s.booleans)

-----------------------------------------------------------------------------
(* Deserializer: serializer.rs 240-353.  A Deserializer is the record of   *)
(* its four queues.  A take gives [ok, panic, val, d]; read_bytes gives    *)
(* [status, d] with status "ok" (Some), "missing" (None) or "panic".       *)

Deserializer_new ==
    [integers |-> << >>, strings |-> << >>, booleans |-> << >>, property_types |-> << >>]

NoValue == << >>

\* VecDeque::pop_front on one queue
pop_front(d, queue) ==
    IF d[queue] = << >> THEN [ok |-> FALSE, panic |-> FALSE, val |-> NoValue, d |-> d]
    ELSE [ok |-> TRUE, panic |-> FALSE, val |-> Head(d[queue]),
          d |-> [d EXCEPT ![queue] = Tail(@)]]

\* take_int that pops the back of the queue
take_int_back(d) ==
    IF d.integers = << >> THEN [ok |-> FALSE, panic |-> FALSE, val |-> NoValue, d |-> d]
    ELSE [ok |-> TRUE, panic |-> FALSE, val |-> d.integers[Len(d.integers)],
          d |-> [d EXCEPT !.integers = SubSeq(@, 1, Len(@) - 1)]]

take_int(d) == pop_front(d, "integers")
take_bool(d) == pop_front(d, "booleans")
take_string(d) == pop_front(d, "strings")
take_property_type(d) == pop_front(d, "property_types")

RECURSIVE take_array(_)
RECURSIVE take_array_values(_, _)

\* the loop of take_array; st is [ok, panic, val, d], val the values so far
take_array_values(st, left) ==
    IF ~st.ok \/ left = 0 THEN st
    ELSE LET tag == take_property_type(st.d)
             value == CASE tag.val = "String" -> take_string(tag.d)
                        [] tag.val = "Bool" -> take_bool(tag.d)
                        [] tag.val = "Integer" -> take_int(tag.d)
                        [] tag.val = "Array" -> take_array(tag.d)
         IN  take_array_values(
                 IF ~tag.ok THEN tag
                 ELSE IF ~value.ok THEN [value EXCEPT !.val = NoValue]
                 ELSE [value EXCEPT !.val = Append(st.val, [tag |-> tag.val, v |-> value.val])],
                 left - 1)

\* Deserializer::take_array.  Vec::with_capacity(length as usize) ends the
\* program (capacity overflow, or a failed allocation) for a length that is
\* negative as i64 or 2^31 and more
take_array(d) ==
    LET length == take_int(d)
    IN  IF ~length.ok THEN length
        ELSE IF ~WordSmall(length.val)
        THEN [ok |-> FALSE, panic |-> TRUE, val |-> NoValue, d |-> length.d]
        ELSE take_array_values([length EXCEPT !.val = << >>], WordNat(length.val))

\* the turns of `for _ in 0..len` that can run on these bytes: none for a
\* negative len, and every turn reads at least one bit or returns
LoopCount(len, bytes) ==
    IF Negative(len) THEN 0
    ELSE IF WordSmall(len) /\ WordNat(len) <= 8 * Len(bytes) THEN WordNat(len)
    ELSE 8 * Len(bytes) + 1

RECURSIVE read_header(_, _)
\* int_len, bool_len, all_ascii, string_len, tags_len, each read with `?`;
\* st is Some(the values read so far, unpacker)
read_header(st, i) ==
    IF ~st.ok \/ i > 5 THEN st
    ELSE LET got(r) == IF r.ok THEN Some(Append(st.val, r.val), r.u) ELSE NoData(r.u)
         IN  read_header(got(IF i = 3 THEN read_bit(st.u) ELSE read_int(st.u)), i + 1)

\* the turns of the loop over column col, for the header values h
ColumnCount(h, bytes, col) ==
    IF col > Len(Columns) THEN 0 ELSE LoopCount(h[<< 1, 2, 4, 5 >>[col]], bytes)

RECURSIVE read_columns_with(_, _, _, _, _, _)
\* the four `for _ in 0..len { queue.push_back(read()?) }` loops of
\* read_bytes, with `left` turns of column col to go; st is [ok, panic, d, u].
\* A read that returns None ends read_bytes when `strict`, and is passed
\* over otherwise.
read_columns_with(strict, st, h, bytes, col, left) ==
    IF ~st.ok \/ col > Len(Columns) THEN st
    ELSE IF left = 0
    THEN read_columns_with(strict, st, h, bytes, col + 1, ColumnCount(h, bytes, col + 1))
    ELSE LET push(r) ==
                 [ok |-> r.ok \/ (~strict /\ ~Aborted(r)), panic |-> Aborted(r), u |-> r.u,
                  d |-> IF r.ok THEN [st.d EXCEPT ![Columns[col]] = Append(@, r.val)]
                        ELSE st.d]
         IN  read_columns_with(
                 strict,
                 push(CASE col = 1 -> read_int(st.u)
                        [] col = 2 -> read_bit(st.u)
                        [] col = 3 -> IF h[3] THEN read_ascii_string_ultrapacked(st.u)
                                      ELSE read_string(st.u)
                        [] col = 4 -> read_property_type(st.u)),
                 h, bytes, col, left - 1)

\* the loops of read_bytes without their `?`
read_columns_lenient(st, h, bytes, col, left) ==
    read_columns_with(FALSE, st, h, bytes, col, left)

read_columns(st, h, bytes, col, left) == read_columns_with(TRUE, st, h, bytes, col, left)

\* read_bytes; the version is compared where check_first says: before the
\* header is read, or after the columns are pushed
read_bytes_with(d, bytes, version, check_first) ==
    LET read_version == read_byte(BitUnpacker_new(bytes))
        done(st) ==
            [status |-> IF st.panic THEN "panic"
                        ELSE IF ~st.ok THEN "missing"
                        ELSE IF read_version.val # version THEN "panic"
                        ELSE "ok",
             d |-> st.d]
        columns(h) ==
            IF ~h.ok THEN [status |-> "missing", d |-> d]
            ELSE done(read_columns([ok |-> TRUE, panic |-> FALSE, u |-> h.u, d |-> d],
                                   h.val, bytes, 1, ColumnCount(h.val, bytes, 1)))
    IN  IF ~read_version.ok THEN [status |-> "missing", d |-> d]
        ELSE IF check_first /\ read_version.val # version THEN [status |-> "panic", d |-> d]
        ELSE columns(read_header(Some(<< >>, read_version.u), 1))

\* read_bytes that compares the version once the columns are read
read_bytes_late_assert(d, bytes, version) == read_bytes_with(d, bytes, version, FALSE)

\* Deserializer::read_bytes
read_bytes(d, bytes, version) == read_bytes_with(d, bytes, version, TRUE)

RECURSIVE take_fields(_, _, _)
\* IntoFormat::take of a struct whose fields have the kinds of schema, in
\* order (main.rs, Config::take); st is [ok, panic, val, d]
take_fields(st, schema, i) ==
    IF ~st.ok \/ i > Len(schema) THEN st
    ELSE LET r == CASE schema[i] = "Integer" -> take_int(st.d)
                    [] schema[i] = "String" -> take_string(st.d)
                    [] schema[i] = "Bool" -> take_bool(st.d)
                    [] schema[i] = "Array" -> take_array(st.d)
         IN  take_fields(
                 IF r.ok THEN [r EXCEPT !.val = Append(st.val, [tag |-> schema[i], v |-> r.val])]
                 ELSE [r EXCEPT !.val = NoValue],
                 schema, i + 1)

\* IntoFormat::deserialize: read_bytes(data, version)?, then Self::take
deserialize(schema, data, d, version) ==
    LET take(r) ==
            IF r.status = "ok"
            THEN take_fields([ok |-> TRUE, panic |-> FALSE, val |-> << >>, d |-> r.d],
                             schema, 1)
            ELSE [ok |-> FALSE, panic |-> r.status = "panic", val |-> NoValue, d |-> r.d]
    IN  take(read_bytes(d, data, version))

-----------------------------------------------------------------------------
(* The serializer machine: a caller builds a payload field by field on a   *)
(* fresh Serializer, finishes it into `buffer`, and decodes the bytes, all *)
(* of them or a part, on a fresh Deserializer.                             *)

\* top-level fields of one payload
MaxFields == 2

\* Integer values, 0 <= i < 2^63
IntValues == { Word(5), << Limb - 1, Limb - 1, Limb - 1, 32767 >> }

\* "Little-endian" (one full bundle and a remainder), "", U+00E9,
\* "a" U+00E9, DEL
StringValues ==
    { << 76, 105, 116, 116, 108, 101, 45, 101, 110, 100, 105, 97, 110 >>, << >>,
      << 233 >>, << 97, 233 >>, << 127 >> }

\* the nested heterogeneous array ["x", 1, [true, false]]
NestedArray ==
    << String(<< 120 >>), Integer(Word(1)), Array(<< Bool(TRUE), Bool(FALSE) >>) >>

ArrayValues == { << >>, NestedArray }

Versions == { 0, 7 }

\* what the decoder is handed: the bytes of finish, all but the last, none
Cuts == { "whole", "truncated", "empty" }

CutData(bytes, cut) ==
    CASE cut = "whole" -> bytes
      [] cut = "truncated" -> SubSeq(bytes, 1, Len(bytes) - 1)
      [] cut = "empty" -> << >>

Ser ==
    [integers |-> integers, strings |-> strings, booleans |-> booleans,
     property_types |-> property_types]

SetSer(s) ==
    /\ integers' = s.integers
    /\ strings' = s.strings
    /\ booleans' = s.booleans
    /\ property_types' = s.property_types

De ==
    [integers |-> d_integers, strings |-> d_strings, booleans |-> d_booleans,
     property_types |-> d_property_types]

SetDe(d) ==
    /\ d_integers' = d.integers
    /\ d_strings' = d.strings
    /\ d_booleans' = d.booleans
    /\ d_property_types' = d.property_types

\* the kinds of the top-level fields, in order
Schema(fs) == [i \in DOMAIN fs |-> fs[i].tag]

\* one top-level write of IntoFormat::serialize
WriteField(name, s, value) ==
    /\ pc = "build"
    /\ Len(fields) < MaxFields
    /\ SetSer(s)
    /\ fields' = Append(fields, value)
    /\ call' = [op |-> name]
    /\ UNCHANGED << deVars, buffer, bit_offset, unpacker, bitVars, ultra, pc, ret >>

SerializerWriteInt(value) ==
    WriteField("Serializer::write_int", Serializer_write_int(Ser, value), Integer(value))

SerializerWriteString(value) ==
    WriteField("Serializer::write_string", Serializer_write_string(Ser, value),
               String(value))

SerializerWriteBool(value) ==
    WriteField("Serializer::write_bool", Serializer_write_bool(Ser, value), Bool(value))

SerializerWriteArray(array) ==
    WriteField("Serializer::write_array", write_array(Ser, array), Array(array))

Finish(version) ==
    /\ pc = "build"
    /\ LET returns(f) ==
               /\ SetPacker(f.p)
               /\ pc' = IF f.panic THEN "panic" ELSE "encoded"
               /\ ret' = [ok |-> ~f.panic, val |-> NoValue]
       IN  returns(finish(Ser, buffer, version))
    /\ call' = [op |-> "finish", version |-> version]
    /\ UNCHANGED << serVars, deVars, unpacker, bitVars, ultra >>

\* read_bytes of the bytes in `buffer`, or of a part of them
ReadBytesStep(cut, version) ==
    /\ LET returns(r) ==
               /\ SetDe(r.d)
               /\ pc' = CASE r.status = "ok" -> "decoded"
                          [] r.status = "missing" -> "missing"
                          [] r.status = "panic" -> "panic"
               /\ ret' = [ok |-> r.status = "ok", val |-> NoValue]
       IN  returns(read_bytes(De, CutData(buffer, cut), version))
    /\ call' = [op |-> "read_bytes", data |-> cut, version |-> version]
    /\ UNCHANGED << serVars, buffer, bit_offset, unpacker, bitVars, ultra >>

ReadBytes(cut, version) == pc = "encoded" /\ ReadBytesStep(cut, version)

Take(name, r) ==
    /\ pc = "decoded"
    /\ SetDe(r.d)
    /\ ret' = [ok |-> r.ok, val |-> r.val]
    /\ call' = [op |-> name]
    /\ UNCHANGED << serVars, buffer, bit_offset, unpacker, bitVars, ultra, pc >>

TakeInt == Take("take_int", take_int(De))
TakeBool == Take("take_bool", take_bool(De))
TakeString == Take("take_string", take_string(De))
TakePropertyType == Take("take_property_type", take_property_type(De))

\* IntoFormat::deserialize for a struct with the first n fields of the one
\* that was serialized
DeserializeStep(cut, version, n) ==
    /\ LET returns(r) ==
               /\ SetDe(r.d)
               /\ pc' = IF r.panic THEN "panic" ELSE "done"
               /\ ret' = [ok |-> r.ok, val |-> r.val]
       IN  returns(deserialize(SubSeq(Schema(fields), 1, n), CutData(buffer, cut), De,
                               version))
    /\ call' = [op |-> "deserialize", data |-> cut, version |-> version, taken |-> n]
    /\ UNCHANGED << serVars, buffer, bit_offset, unpacker, bitVars, ultra >>

\* IntoFormat::deserialize for the struct that was serialized
Deserialize(cut, version) == pc = "encoded" /\ DeserializeStep(cut, version, Len(fields))

\* Serializer::new(), Deserializer::new(), Vec::new()
Init ==
    /\ InitIdle
    /\ buffer = << >>
    /\ bit_offset = 0
    /\ pc = "build"

Next ==
    \/ \E value \in IntValues : SerializerWriteInt(value)
    \/ \E value \in StringValues : SerializerWriteString(value)
    \/ \E value \in BOOLEAN : SerializerWriteBool(value)
    \/ \E array \in ArrayValues : SerializerWriteArray(array)
    \/ \E version \in Versions : Finish(version)
    \/ \E cut \in Cuts, version \in Versions : ReadBytes(cut, version)
    \/ TakeInt
    \/ TakeBool
    \/ TakeString
    \/ TakePropertyType
    \/ \E cut \in Cuts \ {"empty"}, version \in Versions : Deserialize(cut, version)

Spec == Init /\ [][Next]_vars

-----------------------------------------------------------------------------
(* Properties of the serializer machine.                                   *)

\* the decoder was handed every byte of finish and expects its version
WholeDecode(op) == call.op = op /\ call.data = "whole" /\ call.version = buffer[1]

\* every string of the column is made of printable ASCII, 32..=126
AllPrintable(column) ==
    \A i \in DOMAIN column : \A j \in DOMAIN column[i] :
        column[i][j] >= 32 /\ column[i][j] <= 126

\* C1: serializing any tree of Integer (0 <= i < 2^63), Bool, String and
\* nested Array and decoding the bytes gives back an equal tree: finish
\* returns, and deserialize of its bytes returns the fields written.
C1_TreeRoundTrip ==
    /\ call.op = "finish" => ret.ok
    /\ WholeDecode("deserialize") => ret.ok /\ ret.val = fields

\* the header of `buffer`, as the bit-level reads give it
Header == read_header(Some(<< >>, read_byte(BitUnpacker_new(buffer)).u), 1)

\* the columns that follow the header in `buffer`, read for the counts of
\* the serializer's columns
Body ==
    read_columns([ok |-> TRUE, panic |-> FALSE, u |-> Header.u, d |-> Deserializer_new],
                 << Word(Len(integers)), Word(Len(booleans)), Header.val[3],
                    Word(Len(strings)), Word(Len(property_types)) >>,
                 buffer, 1, Len(integers))

\* finish of a serializer no field was written to: the version byte, then
\* four zero varints with the ascii bit after the second, in at most bytes
\* bytes after the version byte
EmptyHeader(bytes) ==
    pc = "encoded" /\ fields = << >> =>
        /\ buffer[1] = call.version
        /\ Header.ok
        /\ Header.val = << Word(0), Word(0), FALSE, Word(0), Word(0) >>
        /\ PackerBits = Position(Header.u)
        /\ Len(buffer) - 1 <= bytes

\* C19: when no field has been written, finish emits the version byte, a
\* header of four zero varints and the ascii bit, and the header occupies
\* at most 2 bytes after the version byte
C19_EmptyHeader == EmptyHeader(2)

\* C19 amended: the four zero varints take 4 bits each, so the header has
\* 17 bits and occupies at most 3 bytes after the version byte
C19_EmptyHeaderAmended ==
    /\ EmptyHeader(3)
    /\ pc = "encoded" /\ fields = << >> => PackerBits = 8 + 4 * int_encoded_bits(Word(0)) + 1

\* C19 witness: finish(&mut buffer, 7) with nothing written left four bytes
C19_Witness ==
    /\ pc = "encoded" /\ fields = << >>
    /\ call = [op |-> "finish", version |-> 7]
    /\ buffer = << 7, 0, 0, 0 >>

RECURSIVE ElementCount(_)
\* the number of elements of an array at all nesting levels; of the fields,
\* the number of fields and of their elements at all nesting levels
ElementCount(array) ==
    IF array = << >> THEN 0
    ELSE 1 + (IF Head(array).tag = "Array" THEN ElementCount(Head(array).v) ELSE 0)
           + ElementCount(Tail(array))

RECURSIVE ElementsOf(_)
\* the elements of an array in the order they are met, each nested array
\* followed by its own elements
ElementsOf(array) ==
    IF array = << >> THEN << >>
    ELSE << Head(array) >>
             \o (IF Head(array).tag = "Array" THEN ElementsOf(Head(array).v) ELSE << >>)
             \o ElementsOf(Tail(array))

RECURSIVE Written_values(_)
\* the values written so far in the order they were met: the fields, each
\* array field followed by its elements
Written_values(fs) ==
    IF fs = << >> THEN << >>
    ELSE << Head(fs) >>
             \o (IF Head(fs).tag = "Array" THEN ElementsOf(Head(fs).v) ELSE << >>)
             \o Written_values(Tail(fs))

\* what the values of one type, in the order met, put into their column:
\* an array its length, any other value itself
ColumnOf(values, tags) ==
    LET own == SelectSeq(values, LAMBDA x : x.tag \in tags)
    IN  [i \in DOMAIN own |-> IF own[i].tag = "Array" THEN Word(Len(own[i].v)) ELSE own[i].v]

RECURSIVE FieldElements(_)
\* the array elements of the fields, in the order met
FieldElements(fs) ==
    IF fs = << >> THEN << >>
    ELSE (IF Head(fs).tag = "Array" THEN ElementsOf(Head(fs).v) ELSE << >>)
             \o FieldElements(Tail(fs))

\* C20: write_array appends the array's length to column I and then, for
\* each element in order, one tag to column T and the element's data to its
\* own column, recursively for nested arrays, whose length also goes to I;
\* write_int, write_bool and write_string called directly append no tag.
\* So T holds the tags of the array elements of all nesting levels, and for
\* the array ["x", 1, [true, false]] the columns are I = [3, 1, 2],
\* B = [true, false], S = ["x"], T = [String, Integer, Array, Bool, Bool]
C20_ArrayColumns ==
    LET values == Written_values(fields)
        elements == FieldElements(fields)
    IN  /\ integers = ColumnOf(values, { "Integer", "Array" })
        /\ booleans = ColumnOf(values, { "Bool" })
        /\ strings = ColumnOf(values, { "String" })
        /\ property_types = [i \in DOMAIN elements |-> elements[i].tag]
        /\ Len(property_types) = ElementCount(fields) - Len(fields)
        /\ Schema(fields) = << "Array" >> /\ Len(fields[1].v) = 3 =>
              /\ integers = << Word(3), Word(1), Word(2) >>
              /\ booleans = << TRUE, FALSE >>
              /\ strings = << << 120 >> >>
              /\ property_types = << "String", "Integer", "Array", "Bool", "Bool" >>

\* C20 witness: an integer was written directly and then the array
\* ["x", 1, [true, false]], which put five tags into T
C20_Witness ==
    /\ pc = "build"
    /\ call.op = "Serializer::write_array"
    /\ Schema(fields) = << "Integer", "Array" >>
    /\ fields[2].v = NestedArray
    /\ integers = << Word(5), Word(3), Word(1), Word(2) >>
    /\ property_types = << "String", "Integer", "Array", "Bool", "Bool" >>

\* C4: the bytes of finish are the version byte, varint |I|, varint |B|, the
\* all_ascii bit, varint |S|, varint |T|, then the columns I, B, S, T and
\* nothing more; after a successful read_bytes of them on a fresh
\* Deserializer the queues hold |I|, |B|, |S| and |T| elements.
C4_HeaderLayout ==
    /\ pc = "encoded" =>
           /\ Header.ok
           /\ Header.val = << Word(Len(integers)), Word(Len(booleans)), all_32_127(Ser),
                              Word(Len(strings)), Word(Len(property_types)) >>
           /\ Body.ok
           /\ Body.d = Ser
           /\ Position(Body.u) = PackerBits
    /\ call.op = "read_bytes" /\ ret.ok =>
           /\ Len(d_integers) = Len(integers)
           /\ Len(d_booleans) = Len(booleans)
           /\ Len(d_strings) = Len(strings)
           /\ Len(d_property_types) = Len(property_types)

\* a payload with all four columns filled was read into the queues
C4_Witness ==
    /\ call.op = "read_bytes" /\ ret.ok
    /\ Len(d_integers) = 3 /\ Len(d_booleans) = 2 /\ Len(d_strings) = 2
    /\ Len(d_property_types) = 5

\* what a take on `queue` does, the queue being the rest of `column`
TakeFifo(column, queue, queue_next) ==
    IF queue = << >> THEN ~ret'.ok /\ queue_next = queue
    ELSE /\ ret'.ok
         /\ ret'.val = column[Len(column) - Len(queue) + 1]
         /\ queue_next = Tail(queue)

\* C5: after read_bytes the i-th take on a column returns the i-th element
\* written to it, leaves the other three queues alone, and on an empty
\* column returns missing and changes no queue.
C5_TakeFifo ==
    [][/\ call'.op = "take_int" =>
              /\ TakeFifo(integers, d_integers, d_integers')
              /\ UNCHANGED << d_booleans, d_strings, d_property_types >>
       /\ call'.op = "take_bool" =>
              /\ TakeFifo(booleans, d_booleans, d_booleans')
              /\ UNCHANGED << d_integers, d_strings, d_property_types >>
       /\ call'.op = "take_string" =>
              /\ TakeFifo(strings, d_strings, d_strings')
              /\ UNCHANGED << d_integers, d_booleans, d_property_types >>
       /\ call'.op = "take_property_type" =>
              /\ TakeFifo(property_types, d_property_types, d_property_types')
              /\ UNCHANGED << d_integers, d_booleans, d_strings >>]_vars

\* the second take_int returned the second of two different integers, with
\* the other queues still full
C5_Witness ==
    /\ call.op = "take_int" /\ ret.ok
    /\ Len(integers) = 2 /\ d_integers = << >>
    /\ integers[1] # integers[2] /\ ret.val = integers[2]

\* C7: the bytes of finish without their last byte decode to missing: no
\* tree comes back, and the decoder does not panic.
C7_TruncatedIsMissing ==
    call.op \in {"read_bytes", "deserialize"} /\ call.data = "truncated"
        /\ call.version = buffer[1]
    => ~ret.ok /\ ret.val = NoValue /\ pc # "panic"

\* the nested array ["x", 1, [true, false]], one byte short, was decoded
C7_Witness ==
    /\ call.op = "deserialize" /\ call.data = "truncated" /\ call.version = buffer[1]
    /\ Schema(fields) = << "Array" >> /\ fields[1].v = NestedArray
    /\ ~ret.ok

\* C8: finish writes its version as the first byte; read_bytes expecting
\* another version panics with nothing pushed on any queue; read_bytes of
\* an empty buffer returns missing whatever version it expects.
C8_VersionGate ==
    /\ call.op = "finish" => buffer[1] = call.version
    /\ call.op = "read_bytes" /\ call.data # "empty" /\ call.version # buffer[1] =>
           pc = "panic" /\ De = Deserializer_new
    /\ call.op = "read_bytes" /\ call.data = "empty" =>
           pc = "missing" /\ ~ret.ok /\ De = Deserializer_new

\* a payload with integers and strings was read expecting another version
C8_Witness ==
    /\ call.op = "read_bytes" /\ call.data = "whole" /\ call.version # buffer[1]
    /\ integers # << >> /\ strings # << >>
    /\ pc = "panic"

\* C9: finish sets the all_ascii bit only when every byte of every string is
\* printable ASCII, so charset detection never meets a byte outside 32..=126
\* (finish returns).
C9_AsciiOnlyWhenAllPrintable ==
    call.op = "finish" =>
        /\ Header.ok /\ Header.val[3] => AllPrintable(strings)
        /\ ret.ok

-----------------------------------------------------------------------------
(* The reuse machine: one Deserializer decodes payload after payload, as   *)
(* main.rs does with its `deserializer`; a decode may be handed a part of  *)
(* the bytes, or be for a struct that takes fewer fields than were         *)
(* written.                                                                *)

\* values the queues may hold when another read_bytes starts
MaxQueued == 2

\* const PROTOCOL_VERSION
PROTOCOL_VERSION == 0

ReusePayloads ==
    { << Integer(Word(5)) >>,
      << String(<< 120 >>), Integer(Word(9)) >>,
      << Array(<< Bool(TRUE) >>) >> }

RECURSIVE serialize(_, _, _)
\* IntoFormat::serialize of a struct with the fields fs, from the i-th on
serialize(s, fs, i) ==
    IF i > Len(fs) THEN s
    ELSE serialize(CASE fs[i].tag = "Integer" -> Serializer_write_int(s, fs[i].v)
                     [] fs[i].tag = "String" -> Serializer_write_string(s, fs[i].v)
                     [] fs[i].tag = "Bool" -> Serializer_write_bool(s, fs[i].v)
                     [] fs[i].tag = "Array" -> write_array(s, fs[i].v),
                   fs, i + 1)

Queued == Len(d_integers) + Len(d_strings) + Len(d_booleans) + Len(d_property_types)

\* the bytes of the last finish are at hand and the queues are short
CanDecode == pc \in {"encoded", "decoded", "missing", "done"} /\ Queued <= MaxQueued

\* config.serialize(&mut serializer); serializer.finish(&mut buffer, VERSION)
\* on a fresh Serializer
SerializeAndFinish(fs) ==
    /\ pc \in {"idle", "encoded", "decoded", "missing", "done"}
    /\ LET s == serialize(Serializer_new, fs, 1)
           returns(f) ==
               /\ SetPacker(f.p)
               /\ pc' = IF f.panic THEN "panic" ELSE "encoded"
               /\ ret' = [ok |-> ~f.panic, val |-> NoValue]
       IN  SetSer(s) /\ returns(finish(s, buffer, PROTOCOL_VERSION))
    /\ fields' = fs
    /\ call' = [op |-> "finish", version |-> PROTOCOL_VERSION]
    /\ UNCHANGED << deVars, unpacker, bitVars, ultra >>

ReuseReadBytes(cut) == CanDecode /\ ReadBytesStep(cut, PROTOCOL_VERSION)

ReuseDeserialize(cut, n) == CanDecode /\ DeserializeStep(cut, PROTOCOL_VERSION, n)

InitReuse ==
    /\ InitIdle
    /\ buffer = << >>
    /\ bit_offset = 0
    /\ pc = "idle"

NextReuse ==
    \/ \E fs \in ReusePayloads : SerializeAndFinish(fs)
    \/ \E cut \in Cuts \ {"empty"} : ReuseReadBytes(cut)
    \/ \E cut \in Cuts \ {"empty"}, n \in 0..Len(fields) : ReuseDeserialize(cut, n)
    \/ TakeInt
    \/ TakeBool
    \/ TakeString
    \/ TakePropertyType

SpecReuse == InitReuse /\ [][NextReuse]_vars

\* C6: whatever a Deserializer decoded before, after a successful
\* read_bytes(p) its four queues hold exactly the columns of p.
C6_QueuesHoldPayload ==
    call.op = "read_bytes" /\ call.data = "whole" /\ ret.ok => De = Ser

-----------------------------------------------------------------------------
(* The best bundle of every alphabet.                                      *)

\* b(k) = 64 - leading_zeros(M^k - 1) for every alphabet size M and bundle
\* size k, 0 where M^k does not fit 64 bits
BundleBits ==
    [M \in 1..(MaxAlphabet + 1) |->
        [k \in 1..MAX_BUNDLE_K |->
            LET power == checked_pow(M, k)
            IN  IF power.ok THEN WordBits(Dec(power.val)) ELSE 0]]

\* the bundle sizes whose M^k fits 64 bits
BundleSizes(M) == { k \in 1..MAX_BUNDLE_K : k = 1 \/ BundleBits[M][k] > 0 }

\* C23: for 2 <= M <= 95 the (k, b) find_optimal_bundle gave has k among the
\* sizes whose M^k fits 64 bits, b = b(k), b(k)/k the least of b(j)/j over
\* those sizes, and k the smallest size with that quotient
C23_OptimalBundle ==
    ultra.pc # "init" /\ ultra.M >= 2 =>
        LET b(j) == BundleBits[ultra.M][j]
        IN  /\ ultra.k \in BundleSizes(ultra.M)
            /\ ultra.b = b(ultra.k)
            /\ \A j \in BundleSizes(ultra.M) :
                  /\ ultra.b * j <= b(j) * ultra.k
                  /\ ultra.b * j = b(j) * ultra.k => ultra.k <= j

\* C23 witness: for M = 59 find_optimal_bundle gave (9, 53); ten symbols
\* take 59 bits, which is more per symbol, and 59^11 does not fit 64 bits
C23_Witness ==
    /\ call.op = "find_optimal_bundle"
    /\ ultra.M = 59 /\ ultra.k = 9 /\ ultra.b = 53
    /\ 10 \in BundleSizes(59) /\ BundleBits[59][10] = 59
    /\ 11 \notin BundleSizes(59)

-----------------------------------------------------------------------------
(* Reads of bytes no writer produced: a BitUnpacker over any bytes, read   *)
(* by any of its read functions in any order, at and past the end.         *)

\* reads in one run
MaxReads == 3

\* the bytes handed to BitUnpacker::new are the prefixes of these: ten bytes
\* of ones (a read_int of the last slot needs 70 bits), a mixed run, and
\* bytes whose unary prefixes end at and next to a byte border
ReadSeeds ==
    { << 255, 255, 255, 255, 255, 255, 255, 255, 255, 255 >>,
      << 181, 15, 240, 3 >>,
      << 254, 1, 128 >>,
      << 0, 0 >> }

\* widths given to read_bits
ReadBitsWidths == 1..8

\* widths given to read_bytes_width
ReadBytesWidths == { 0, 3, 8, 13, 16, 64 }

InitDrain ==
    /\ integers = << >> /\ strings = << >> /\ booleans = << >> /\ property_types = << >>
    /\ d_integers = << >> /\ d_strings = << >> /\ d_booleans = << >>
    /\ d_property_types = << >>
    /\ fields = << >>
    /\ oplog = << >> /\ nread = 0
    /\ ultra = [pc |-> "none"]
    /\ call = [op |-> "BitUnpacker::new"]
    /\ ret = [ok |-> TRUE, val |-> 0]
    /\ bit_offset = 0
    /\ pc = "drain"
    /\ \E seed \in ReadSeeds : \E n \in 0..Len(seed) : buffer = SubSeq(seed, 1, n)
    /\ unpacker = BitUnpacker_new(buffer)

\* one read of the unpacker; r is what the read function gave
Drain(name, width, r) ==
    /\ pc = "drain" /\ nread < MaxReads
    /\ unpacker' = r.u
    /\ ret' = [ok |-> r.ok, val |-> r.val]
    /\ nread' = nread + 1
    /\ call' = [op |-> name, from |-> Position(unpacker), width |-> width]
    /\ UNCHANGED << serVars, deVars, buffer, bit_offset, oplog, ultra, pc >>

DrainBit == Drain("read_bit", 1, read_bit(unpacker))

DrainBits(width) == Drain("read_bits", width, read_bits(unpacker, width))

DrainByte == Drain("read_byte", 8, read_byte(unpacker))

DrainBytesWidth(width) == Drain("read_bytes_width", width, read_bytes_width(unpacker, width))

DrainInt == Drain("read_int", 0, read_int(unpacker))

NextDrain ==
    \/ DrainBit
    \/ \E width \in ReadBitsWidths : DrainBits(width)
    \/ DrainByte
    \/ \E width \in ReadBytesWidths : DrainBytesWidth(width)
    \/ DrainInt

SpecDrain == InitDrain /\ [][NextDrain]_vars

\* the bits of `buffer` from a bit position on
BitsLeft(pos) == IF pos >= 8 * Len(buffer) THEN 0 ELSE 8 * Len(buffer) - pos

\* the leading ones of a varint at pos: as many as the buffer shows, at most 6
LeadingOnes(pos) ==
    CHOOSE n \in 0..6 :
        /\ n <= BitsLeft(pos)
        /\ \A i \in 0..(n - 1) : BitAt(pos + i)
        /\ n = 6 \/ n = BitsLeft(pos) \/ ~BitAt(pos + n)

\* the bits a read asks of the stream; a read_int whose prefix runs into the
\* end asks for one more bit than there is
BitsNeeded ==
    IF call.op # "read_int" THEN call.width
    ELSE LET ones == LeadingOnes(call.from)
         IN  IF ones = 6 THEN 6 + INT_WIDTHS[7]
             ELSE IF ones = BitsLeft(call.from) THEN ones + 1
             ELSE ones + 1 + INT_WIDTHS[ones + 1]

\* C21: a read returns 'no data' exactly when it needs more bits than remain
\* in the buffer; a read that returns a value moved the reader by the bits it
\* needed, and no read moves the reader beyond the byte after the last
C21_NoDataOnlyAtEnd ==
    nread > 0 =>
        /\ ret.ok <=> BitsNeeded <= BitsLeft(call.from)
        /\ ret.ok => Position(unpacker) = call.from + BitsNeeded
        /\ unpacker.byte_index <= Len(buffer)
        /\ unpacker.bit_offset \in 0..7
        /\ pc # "panic"

\* C21 witness: a read_byte that starts inside the last byte found no data,
\* after a read that gave a value
C21_Witness ==
    /\ nread = 2
    /\ call.op = "read_byte" /\ call.from % 8 # 0
    /\ call.from < 8 * Len(buffer) /\ call.from + 8 > 8 * Len(buffer)
    /\ ~ret.ok

-----------------------------------------------------------------------------
(* All five writers on one packer, in any order.                           *)

\* write_int arguments of the mixed runs: the first slot, a middle slot that
\* ends inside a byte, and the last slot
PackInts == { Word(0), Word(1000), << Limb - 1, Limb - 1, Limb - 1, 32767 >> }

NextPack ==
    \/ \E bit \in BOOLEAN : WriteBit(bit)
    \/ \E a \in BitsSamples : WriteBits(a[1], a[2])
    \/ \E byte \in ByteSamples : WriteByte(byte)
    \/ \E a \in WidthSamples : WriteBytesWidth(a[1], a[2])
    \/ \E int \in PackInts : WriteInt(int)

SpecPack == InitBits /\ [][NextPack]_vars

\* after the writes logged: bit_offset in 1..=8, the bits of the last byte
\* beyond bit_offset zero, and ceil(bits written / 8) bytes in the buffer
PackerShape ==
    /\ bit_offset \in 1..8
    /\ buffer[Len(buffer)] % 2^(8 - bit_offset) = 0
    /\ Len(buffer) = (SumWidths(oplog) + 7) \div 8

\* C22: after every write_bit, write_bits (1 <= w <= 8), write_byte,
\* write_bytes_width and write_int the packer has that shape
C22_PackerShape == oplog # << >> => PackerShape

\* C22 amended: the same after every write of at least one bit, that is with
\* write_bytes_width of width 1..=64
C22_PackerShapeAmended ==
    oplog # << >> /\ (\A i \in DOMAIN oplog : oplog[i].w >= 1) => PackerShape

\* C22 witness: a write_bits of 7 bits, a write_int of 4 bits and a
\* write_bits of 5 bits filled the second byte to its end
C22_Witness ==
    /\ Len(oplog) = 3
    /\ oplog[1].op = "bits" /\ oplog[1].w = 7
    /\ oplog[2].op = "int" /\ oplog[2].w = 4
    /\ oplog[3].op = "bits" /\ oplog[3].w = 5
    /\ bit_offset = 8
    /\ Len(buffer) = 2

-----------------------------------------------------------------------------
(* One serializer and one buffer used again and again: serializer.rs       *)
(* 112-122 and 202-237.                                                    *)

\* reuse_vec: the vector is cleared and collected anew
reuse_vec(v) == SubSeq(v, 1, 0)

\* Serializer::reuse
Serializer_reuse(s) ==
    [integers |-> SubSeq(s.integers, 1, 0),
     strings |-> reuse_vec(s.strings),
     booleans |-> SubSeq(s.booleans, 1, 0),
     property_types |-> SubSeq(s.property_types, 1, 0)]

\* what the caller's Vec may hold before the first finish
StaleBuffers == { << >>, << 255, 255, 255 >> }

\* finish(&mut buffer, version) on the serializer as it stands, whatever the
\* buffer holds
FinishAgain(version) ==
    /\ pc \in {"build", "encoded"}
    /\ LET returns(f) ==
               /\ SetPacker(f.p)
               /\ pc' = IF f.panic THEN "panic" ELSE "encoded"
               /\ ret' = [ok |-> ~f.panic, val |-> NoValue]
       IN  returns(finish(Ser, buffer, version))
    /\ call' = [op |-> "finish", version |-> version, before |-> buffer,
                columns |-> Ser, after |-> call.op,
                last |-> IF call.op = "finish" THEN call.version ELSE -1]
    /\ UNCHANGED << serVars, deVars, unpacker, bitVars, ultra >>

\* serializer = serializer.reuse()
Reuse ==
    /\ pc \in {"build", "encoded"}
    /\ SetSer(Serializer_reuse(Ser))
    /\ fields' = << >>
    /\ pc' = "build"
    /\ call' = [op |-> "reuse", columns |-> Ser]
    /\ ret' = [ok |-> TRUE, val |-> NoValue]
    /\ UNCHANGED << deVars, buffer, bit_offset, unpacker, bitVars, ultra >>

InitAgain ==
    /\ InitIdle
    /\ buffer \in StaleBuffers
    /\ bit_offset = 0
    /\ pc = "build"

\* a printable string and one that is not
AgainStrings == { << 47, 117 >>, << 97, 233 >> }

NextAgain ==
    \/ SerializerWriteInt(Word(5))
    \/ \E value \in AgainStrings : SerializerWriteString(value)
    \/ SerializerWriteBool(TRUE)
    \/ SerializerWriteArray(NestedArray)
    \/ \E version \in Versions : FinishAgain(version)
    \/ Reuse

SpecAgain == InitAgain /\ [][NextAgain]_vars

\* C24: finish leaves the four columns as they were, its bytes are those of
\* finish into an empty buffer (so a second finish with the same version
\* gives the same bytes again), and reuse gives four empty columns.
C24_FinishReadsOnly ==
    /\ call.op = "finish" /\ ret.ok =>
           /\ Ser = call.columns
           /\ buffer = finish(Ser, << >>, call.version).p.buffer
           /\ bit_offset = finish(Ser, << >>, call.version).p.bit_offset
           /\ call.after = "finish" /\ call.last = call.version => buffer = call.before
    /\ call.op = "reuse" =>
           integers = << >> /\ strings = << >> /\ booleans = << >>
           /\ property_types = << >>

\* C24 witness: a finish right after a finish with the same version, of a
\* serializer that holds a string and an integer
C24_Witness ==
    /\ call.op = "finish" /\ call.after = "finish" /\ call.last = call.version
    /\ ret.ok
    /\ Len(strings) = 1 /\ Len(integers) = 1
    /\ Len(buffer) > 4

\* a reuse emptied a serializer that held values, and the buffer still holds
\* the bytes of the finish before it
ReusedAfterFinish ==
    /\ call.op = "reuse"
    /\ call.columns.integers # << >>
    /\ Len(buffer) > 1

-----------------------------------------------------------------------------
(* ASCII Huffman strings with bytes the static table has no code for:      *)
(* bit_packer.rs 250-259, 406-436.                                         *)

\* "a\n", "\n", DEL and a space, "\thi" and, with a code for every byte, "hi"
RawSeeds ==
    { << 97, 10 >>, << 10 >>, << 127, 32 >>, << 9, 104, 105 >>, << 104, 105 >> }

InitRaw ==
    /\ integers = << >> /\ booleans = << >> /\ property_types = << >>
    /\ strings = << << >> >>
    /\ d_integers = << >> /\ d_strings = << >> /\ d_booleans = << >>
    /\ d_property_types = << >>
    /\ fields = << >>
    /\ oplog = << >> /\ nread = 0
    /\ unpacker = BitUnpacker_new(<< >>)
    /\ call = [op |-> "new"]
    /\ ret = [ok |-> TRUE, val |-> 0]
    /\ buffer = BitPacker_new(<< >>).buffer
    /\ bit_offset = BitPacker_new(<< >>).bit_offset
    /\ pc = "write"
    /\ \E seed \in RawSeeds : ultra = [pc |-> "none", seed |-> seed]

WriteAsciiHuffmanString ==
    WriteString("ascii_huffman_string",
                [panic |-> FALSE, p |-> write_ascii_huffman_string(Packer, Text)])

ReadAsciiHuffmanString ==
    ReadString("ascii_huffman_string", read_ascii_huffman_string(unpacker))

NextRaw ==
    \/ PushChar
    \/ WriteAsciiHuffmanString
    \/ StartRead
    \/ ReadAsciiHuffmanString

SpecRaw == InitRaw /\ [][NextRaw]_vars

\* a byte below 128 that HUFFMAN_TABLE has no entry for is in the text
HasRawByte(s) ==
    \E i \in DOMAIN as_bytes(s) :
        as_bytes(s)[i] < 128 /\ ~HUFFMAN_TABLE(as_bytes(s)[i]).found

\* C25: a string of bytes below 128, some of them without an entry in the
\* Huffman table, that write_ascii_huffman_string wrote is returned by
\* read_ascii_huffman_string.
C25_RawBytesRoundTrip ==
    /\ pc = "read" /\ call.op = "ascii_huffman_string"
    /\ \A i \in DOMAIN as_bytes(Text) : as_bytes(Text)[i] < 128
    /\ HasRawByte(Text)
    => ret.ok /\ ret.val = Text

\* the writer gave a byte without a code 7 bits: "\n" took the bits of the
\* length 1 and 7 more
RawByteWritten ==
    /\ call.op = "ascii_huffman_string" /\ pc = "write"
    /\ Text = << 10 >>
    /\ oplog[Len(oplog)].w = int_encoded_bits(Word(1)) + 7

-----------------------------------------------------------------------------
(* Negative integers through write_int and read_int: bit_packer.rs 10-16,  *)
(* 182-194, 363-372.                                                       *)

\* -1, -5, -8, -1000, -2^45 and i64::MIN, with 5 and 1000 between them
NegSamples ==
    { << Limb - 1, Limb - 1, Limb - 1, Limb - 1 >>,
      << Limb - 5, Limb - 1, Limb - 1, Limb - 1 >>,
      << Limb - 8, Limb - 1, Limb - 1, Limb - 1 >>,
      << Limb - 1000, Limb - 1, Limb - 1, Limb - 1 >>,
      << 0, 0, Limb - 8192, Limb - 1 >>,
      << 0, 0, 0, 32768 >>,
      Word(5), Word(1000) }

NextNeg ==
    \/ \E int \in NegSamples : WriteInt(int)
    \/ StartRead
    \/ ReadInt

SpecNeg == InitBits /\ [][NextNeg]_vars

\* C26: write_int of a negative n picks slot 0 or the last slot and writes
\* the bits of that slot, and read_int on those bits returns a value that
\* is not n.
C26_NegativeNotRoundTripped ==
    /\ \A i \in DOMAIN oplog :
           Negative(oplog[i].v) =>
               /\ int_slot_width(oplog[i].v).slot \in {0, Len(INT_WIDTHS) - 1}
               /\ oplog[i].w = int_encoded_bits(oplog[i].v)
    /\ PackerBits = SumWidths(oplog)
    /\ pc = "read" /\ nread > 0 =>
           /\ ret.ok
           /\ Position(unpacker) - call.from = oplog[nread].w
           /\ Negative(oplog[nread].v) => ret.val # oplog[nread].v

\* C26 witness: -1 was written after 1000 in the 4 bits of slot 0 and
\* read back as 7
C26_Witness ==
    /\ pc = "read" /\ nread = 2
    /\ oplog[1].v = Word(1000)
    /\ oplog[2].v = << Limb - 1, Limb - 1, Limb - 1, Limb - 1 >>
    /\ oplog[2].w = 4
    /\ ret.ok /\ ret.val = Word(7)

-----------------------------------------------------------------------------
(* Decoding bytes no finish produced: serializer.rs 260-336, bit_packer.rs *)
(* 374-453.                                                                *)

\* the last slot's encoding of an i64, which write_int gives only to the
\* integers from 2^45 on: six 1 bits and the 64 bits of the value
WideInt(p, int) == write_bytes_width(write_ones(p, Len(INT_WIDTHS) - 1), to_le_bytes(int), 64)

MinusOne == << Limb - 1, Limb - 1, Limb - 1, Limb - 1 >>

\* the version byte and a header with these four counts
CorruptHeader(int_len, bool_len, all_ascii, string_len, tags_len) ==
    write_int(
        write_int(
            write_bit(
                write_int(write_int(write_byte(BitPacker_new(<< >>), PROTOCOL_VERSION),
                                    Word(int_len)),
                          Word(bool_len)),
                all_ascii),
            Word(string_len)),
        Word(tags_len))

\* payloads with the version byte in front: one Unicode string of length -1;
\* one ultrapacked string of length -1; the integer -1 alone; the integer 3
\* and one Bool tag; an integer count of -1; three integers announced and
\* one present; and what finish gives for the nested array
CorruptSeeds ==
    { WideInt(CorruptHeader(0, 0, FALSE, 1, 0), MinusOne).buffer,
      WideInt(write_bits(CorruptHeader(0, 0, TRUE, 1, 0), 0, CHARSETS), MinusOne).buffer,
      WideInt(CorruptHeader(1, 0, FALSE, 0, 0), MinusOne).buffer,
      write_property_type(write_int(CorruptHeader(1, 0, FALSE, 0, 1), Word(3)), "Bool").buffer,
      WideInt(write_byte(BitPacker_new(<< >>), PROTOCOL_VERSION), MinusOne).buffer,
      write_int(CorruptHeader(3, 0, FALSE, 0, 0), Word(5)).buffer,
      finish(write_array(Serializer_new, NestedArray), << >>, PROTOCOL_VERSION).p.buffer }

\* the bytes handed to read_bytes: a seed or the first bytes of one, the
\* version byte among them
InitCorrupt ==
    /\ InitIdle
    /\ \E seed \in CorruptSeeds : \E n \in 1..Len(seed) : buffer = SubSeq(seed, 1, n)
    /\ bit_offset = 0
    /\ pc = "encoded"

\* take_array as the first take of a schema
TakeArray ==
    /\ pc = "decoded"
    /\ LET r == take_array(De)
       IN  /\ SetDe(r.d)
           /\ ret' = [ok |-> r.ok, val |-> r.val]
           /\ pc' = IF r.panic THEN "panic" ELSE pc
    /\ call' = [op |-> "take_array"]
    /\ UNCHANGED << serVars, buffer, bit_offset, unpacker, bitVars, ultra >>

NextCorrupt ==
    \/ ReadBytes("whole", PROTOCOL_VERSION)
    \/ TakeInt
    \/ TakeBool
    \/ TakeString
    \/ TakePropertyType
    \/ TakeArray

SpecCorrupt == InitCorrupt /\ [][NextCorrupt]_vars

\* C27: for bytes that start with the expected version, read_bytes and the
\* takes after it return values or "missing"; none of them ends the program.
C27_CorruptNeverAborts == pc # "panic"

\* read_bytes gave Some(()) for bytes no finish produced, the integer queue
\* holding -1
CorruptDecoded ==
    /\ pc = "decoded" /\ call.op = "read_bytes"
    /\ d_integers = << MinusOne >>

\* take_array ended the program on the length -1
TakeArrayAborted ==
    /\ pc = "panic" /\ call.op = "take_array"

\* read_bytes ended the program inside a string reader
ReadBytesAborted ==
    /\ pc = "panic" /\ call.op = "read_bytes"

\* take_array returned "missing" for a length larger than the tags at hand
TakeArrayMissing ==
    /\ pc = "decoded" /\ call.op = "take_array" /\ ~ret.ok

====
